---- MODULE Spec2Model ----
(***************************************************************************)
(* The versioned canvas state store of the SIGMA backend: one thread's     *)
(* canvas state (state.py, get_canvas_state) and the operations that read  *)
(* and write it (tools.py: propose_canvas_update, apply_proposed_changes,  *)
(* undo_last_change, redo_change, _apply_single_change; main.py:           *)
(* reject_change, update_thread_state).                                    *)
(*                                                                         *)
(* Python values are modelled as follows.  A str is a TLA+ string, None is *)
(* the reserved string None (no input is the literal text "None"), a list  *)
(* is a sequence, a dict with string keys is a record.  uuid4()[:8] draws  *)
(* for the id of a ProposedChange are modelled by the counter uuid: every   *)
(* draw returns a value never returned before.  sha256(raw)[:16] is        *)
(* modelled by raw itself, i.e. the hash is taken to be collision free on  *)
(* the pre-hash key.  The id and timestamp of a CanvasVersion and the id   *)
(* of a CustomerSegment are left out: no operation reads them.             *)
(*                                                                         *)
(* The proposer of a run stays within one focus: the changes tried on one  *)
(* canvas, or a set of changes spread over the three canvases.             *)
(*                                                                         *)
(* Spec follows one thread, whose state is in the variables bmc to         *)
(* auto_mode.  ThreadsSpec follows the registry canvas_store with the      *)
(* states of several threads in it; there uuid counts the ids drawn by all *)
(* threads, and the uuid field of a stored state is kept at 0.             *)
(* MemorySpec follows one thread at the level of Python objects: memory    *)
(* holds a heap of canvas objects (a BMC dict, a VPC dict, a list of       *)
(* segments), the live canvases and the snapshots of the version entries   *)
(* are addresses into it, so that two names for one object and a write in  *)
(* place are visible.  model_dump() returns new containers.                *)
(* RaceSpec follows one thread whose tool calls run on worker threads      *)
(* while the endpoints run on the event loop, without any lock: a call of  *)
(* propose_canvas_update or apply_proposed_changes is a sequence of steps  *)
(* (calls holds its position and its local variables) between which other *)
(* calls take steps.                                                       *)
(***************************************************************************)
EXTENDS Integers, Sequences, FiniteSets, TLC

VARIABLES
    bmc,               \* state["bmc"]: field name -> list of str
    vpc,               \* state["vpc"]: section name -> list of {text, importance}
    segments,          \* state["segments"]: list of CustomerSegment dumps
    versions,          \* state["versions"]: the version log
    pending_changes,   \* state["pending_changes"]
    rejected_changes,  \* state["rejected_changes"]
    undo_stack,        \* state["undo_stack"]
    redo_stack,        \* state["redo_stack"]
    auto_mode,         \* state["auto_mode"]
    uuid,              \* number of ProposedChange ids drawn so far
    focus,             \* the canvas the proposer works on in this run
    canvas_store,      \* state.py canvas_store, where several threads are followed
    memory,            \* the thread state as objects in memory
    calls              \* the tool calls in progress, where calls overlap

vars == <<bmc, vpc, segments, versions, pending_changes, rejected_changes,
          undo_stack, redo_stack, auto_mode, uuid, focus, canvas_store,
          memory, calls>>

\* Proposals are accepted while fewer than MaxUuid ids have been drawn.
MaxUuid == 2

None == "None"

\* Python truthiness of an Optional[str]
Truthy(v) == v # None /\ v # ""

\* Python's `a or b` on Optional[str]
OrElse(a, b) == IF Truthy(a) THEN a ELSE b

\* x in q
InList(x, q) == \E i \in 1..Len(q) : q[i] = x

(***************************************************************************)
(* models.py: seed data                                                    *)
(***************************************************************************)
get_seed_bmc ==
    [key_partners |-> <<"Cloud infrastructure providers", "University incubators">>,
     key_activities |-> <<"Product development", "Customer discovery interviews">>,
     key_resources |-> <<"Engineering team", "Customer research data">>,
     value_propositions |-> <<"AI-powered business model validation for founders">>,
     customer_relationships |-> <<"Self-service platform", "Guided onboarding">>,
     channels |-> <<"Direct web app", "Startup community events">>,
     customer_segments |-> <<"Early-stage tech founders", "Accelerator programs">>,
     cost_structure |-> <<"Cloud hosting", "AI API costs", "Team salaries">>,
     revenue_streams |-> <<"SaaS subscription">>]

CanvasItem(text, importance) == [text |-> text, importance |-> importance]

get_seed_vpc ==
    [customer_jobs |-> <<CanvasItem("Validate business model assumptions", "very_essential"),
                         CanvasItem("Track experiment outcomes", "very_essential"),
                         CanvasItem("Iterate on value proposition", "fairly_essential")>>,
     pains |-> <<CanvasItem("Manual canvas updates are tedious", "very_essential"),
                 CanvasItem("Hard to connect experiment results to model changes", "fairly_essential")>>,
     gains |-> <<CanvasItem("Faster iteration cycles", "very_essential"),
                 CanvasItem("Evidence-based business model decisions", "fairly_essential")>>,
     products_services |-> <<CanvasItem("AI co-pilot for canvas management", "very_essential")>>,
     pain_relievers |-> <<CanvasItem("Automatic canvas updates from experiment results", "very_essential")>>,
     gain_creators |-> <<CanvasItem("Version history with undo/redo", "fairly_essential")>>]

CustomerSegment(name, description, persona, importance) ==
    [name |-> name, description |-> description,
     persona |-> persona, importance |-> importance]

get_seed_segments ==
    <<CustomerSegment("Technical Founders",
                      "Founders with engineering backgrounds building B2B SaaS",
                      "Alex, 28, ex-FAANG engineer, building dev tools startup",
                      "very_important"),
      CustomerSegment("Accelerator Teams",
                      "Teams in accelerator programs needing structured validation",
                      "Priya, 32, leading a 3-person team in Y Combinator",
                      "fairly_important")>>

SegmentImportance == {"very_important", "fairly_important", "not_important"}

CanvasType == {"bmc", "vpc", "segments"}

\* The fields of BMCCanvas and of VPCCanvas.
BMCCanvas ==
    {"key_partners", "key_activities", "key_resources", "value_propositions",
     "customer_relationships", "channels", "customer_segments",
     "cost_structure", "revenue_streams"}

VPCCanvas ==
    {"customer_jobs", "pains", "gains", "products_services", "pain_relievers",
     "gain_creators"}

ChangeAction == {"add", "update", "remove"}

(***************************************************************************)
(* models.py: ProposedChange                                               *)
(***************************************************************************)
\* Mutant of compute_hash: old_value is part of the key.
compute_hash_with_old_value(c) ==
    c.canvas_type \o "|" \o c.field \o "|" \o c.action \o "|"
        \o (IF Truthy(c.new_value) THEN c.new_value ELSE "")
        \o "|" \o (IF Truthy(c.old_value) THEN c.old_value ELSE "")

\* The pre-hash key of ProposedChange.compute_hash.
compute_hash(c) ==
    c.canvas_type \o "|" \o c.field \o "|" \o c.action \o "|"
        \o (IF Truthy(c.new_value) THEN c.new_value ELSE "")

\* ProposedChange(canvas_type=..., ...) with a fresh id; model_post_init
\* fills change_hash.
ProposedChange(id, in) ==
    [id |-> id, canvas_type |-> in.canvas_type, field |-> in.field,
     action |-> in.action, old_value |-> in.old_value,
     new_value |-> in.new_value, reason |-> in.reason,
     change_hash |-> compute_hash(in)]

(***************************************************************************)
(* The thread state as one value, so that an operation is a function from  *)
(* the state (and its arguments) to the new state and what it returns.     *)
(***************************************************************************)
State ==
    [bmc |-> bmc, vpc |-> vpc, segments |-> segments, versions |-> versions,
     pending_changes |-> pending_changes, rejected_changes |-> rejected_changes,
     undo_stack |-> undo_stack, redo_stack |-> redo_stack,
     auto_mode |-> auto_mode, uuid |-> uuid]

\* state.py get_canvas_state: the state created on first reference.
get_canvas_state ==
    [bmc |-> get_seed_bmc, vpc |-> get_seed_vpc, segments |-> get_seed_segments,
     versions |-> <<>>, pending_changes |-> <<>>, rejected_changes |-> <<>>,
     undo_stack |-> <<>>, redo_stack |-> <<>>, auto_mode |-> FALSE,
     action_log |-> <<>>, uuid |-> 0]

\* The worker threads on which tool calls run.
MaxWorkers == 2

Workers == 1..MaxWorkers

\* The objects get_canvas_state creates: the three canvases, and no entry in
\* the log and on the stacks.
new_memory ==
    [heap |-> <<get_seed_bmc, get_seed_vpc, get_seed_segments>>,
     bmc |-> 1, vpc |-> 2, segments |-> 3,
     versions |-> <<>>, undo_stack |-> <<>>, redo_stack |-> <<>>]

\* Mutant of existing_hashes: no hash is found.
existing_hashes_none(s) == {}

\* Mutant of existing_hashes: the hashes are read from the pending changes.
existing_hashes_of_pending(s) ==
    {s.pending_changes[i].change_hash : i \in 1..Len(s.pending_changes)}

\* {v["change_hash"] for v in state["versions"]}
existing_hashes(s) == {s.versions[i].change_hash : i \in 1..Len(s.versions)}

(***************************************************************************)
(* tools.py: _apply_single_change                                          *)
(***************************************************************************)
\* CanvasVersion(...) of lines 395-402.
CanvasVersion(s, c, before, after) ==
    [canvas_type |-> c.canvas_type,
     change_description |->
         c.action \o " '" \o OrElse(c.new_value, c.old_value) \o "' in "
             \o c.canvas_type \o "." \o c.field,
     change_hash |-> c.change_hash,
     snapshot_before |-> before,
     snapshot_after |-> after,
     applied_by |-> IF s.auto_mode THEN "auto" ELSE "manual"]

\* Mutant of record_version: the redo stack is not cleared.
record_version_keep_redo(s, version) ==
    [s EXCEPT !.versions = Append(@, version),
              !.undo_stack = Append(@, version)]

\* Lines 403-405: append to versions, clear the redo stack, push on the undo stack.
record_version(s, version) ==
    [s EXCEPT !.versions = Append(@, version),
              !.redo_stack = <<>>,
              !.undo_stack = Append(@, version)]

\* Mutant of bmc_field_after: add appends without looking for the value.
bmc_field_after_always_appends(cur, c) ==
    IF c.action = "add" /\ Truthy(c.new_value)
    THEN Append(cur, c.new_value)
    ELSE IF c.action = "remove" /\ Truthy(c.old_value)
    THEN SelectSeq(cur, LAMBDA v : v # c.old_value)
    ELSE IF c.action = "update" /\ Truthy(c.old_value) /\ Truthy(c.new_value)
    THEN [i \in 1..Len(cur) |-> IF cur[i] = c.old_value THEN c.new_value ELSE cur[i]]
    ELSE cur

\* Lines 318-327: the new content of a BMC field.
bmc_field_after(cur, c) ==
    IF c.action = "add" /\ Truthy(c.new_value)
    THEN IF InList(c.new_value, cur) THEN cur ELSE Append(cur, c.new_value)
    ELSE IF c.action = "remove" /\ Truthy(c.old_value)
    THEN SelectSeq(cur, LAMBDA v : v # c.old_value)
    ELSE IF c.action = "update" /\ Truthy(c.old_value) /\ Truthy(c.new_value)
    THEN [i \in 1..Len(cur) |-> IF cur[i] = c.old_value THEN c.new_value ELSE cur[i]]
    ELSE cur

\* Mutant of vpc_field_after: update builds the item anew, with the default
\* importance.
vpc_field_after_resets_importance(cur, c) ==
    IF c.action = "add" /\ Truthy(c.new_value)
    THEN IF \E i \in 1..Len(cur) : cur[i].text = c.new_value
         THEN cur
         ELSE Append(cur, CanvasItem(c.new_value, "fairly_essential"))
    ELSE IF c.action = "remove" /\ Truthy(c.old_value)
    THEN SelectSeq(cur, LAMBDA item : item.text # c.old_value)
    ELSE IF c.action = "update" /\ Truthy(c.old_value) /\ Truthy(c.new_value)
    THEN [i \in 1..Len(cur) |->
             IF cur[i].text = c.old_value
             THEN CanvasItem(c.new_value, "fairly_essential")
             ELSE cur[i]]
    ELSE cur

\* Lines 339-352: the new content of a VPC section.
vpc_field_after(cur, c) ==
    IF c.action = "add" /\ Truthy(c.new_value)
    THEN IF \E i \in 1..Len(cur) : cur[i].text = c.new_value
         THEN cur
         ELSE Append(cur, CanvasItem(c.new_value, "fairly_essential"))
    ELSE IF c.action = "remove" /\ Truthy(c.old_value)
    THEN SelectSeq(cur, LAMBDA item : item.text # c.old_value)
    ELSE IF c.action = "update" /\ Truthy(c.old_value) /\ Truthy(c.new_value)
    THEN [i \in 1..Len(cur) |->
             IF cur[i].text = c.old_value
             THEN [cur[i] EXCEPT !.text = c.new_value]
             ELSE cur[i]]
    ELSE cur

\* Mutant of apply_bmc: the redo stack is cleared before the field is checked.
apply_bmc_clears_redo(s, c) ==
    IF c.field \notin DOMAIN s.bmc
    THEN [st |-> [s EXCEPT !.redo_stack = <<>>], outcome |-> "invalid_field"]
    ELSE LET snapshot_before == s.bmc
             canvas_dict == [s.bmc EXCEPT ![c.field] = bmc_field_after(@, c)]
             s1 == [s EXCEPT !.bmc = canvas_dict]
         IN  [st |-> record_version(s1, CanvasVersion(s1, c, snapshot_before, canvas_dict)),
              outcome |-> "applied"]

\* Mutant of apply_bmc: a change that leaves the field as it was is not
\* recorded.
apply_bmc_skips_noop(s, c) ==
    IF c.field \notin DOMAIN s.bmc
    THEN [st |-> s, outcome |-> "invalid_field"]
    ELSE LET snapshot_before == s.bmc
             canvas_dict == [s.bmc EXCEPT ![c.field] = bmc_field_after(@, c)]
             s1 == [s EXCEPT !.bmc = canvas_dict]
         IN  IF canvas_dict = snapshot_before
             THEN [st |-> s, outcome |-> "applied"]
             ELSE [st |-> record_version(s1, CanvasVersion(s1, c, snapshot_before, canvas_dict)),
                   outcome |-> "applied"]

\* Lines 311-330
apply_bmc(s, c) ==
    IF c.field \notin DOMAIN s.bmc
    THEN [st |-> s, outcome |-> "invalid_field"]
    ELSE LET snapshot_before == s.bmc
             canvas_dict == [s.bmc EXCEPT ![c.field] = bmc_field_after(@, c)]
             s1 == [s EXCEPT !.bmc = canvas_dict]
         IN  [st |-> record_version(s1, CanvasVersion(s1, c, snapshot_before, canvas_dict)),
              outcome |-> "applied"]

\* Lines 332-355
apply_vpc(s, c) ==
    IF c.field \notin DOMAIN s.vpc
    THEN [st |-> s, outcome |-> "invalid_field"]
    ELSE LET snapshot_before == s.vpc
             canvas_dict == [s.vpc EXCEPT ![c.field] = vpc_field_after(@, c)]
             s1 == [s EXCEPT !.vpc = canvas_dict]
         IN  [st |-> record_version(s1, CanvasVersion(s1, c, snapshot_before, canvas_dict)),
              outcome |-> "applied"]

\* Lines 374-381: the assignment to the segment found; field importance goes
\* through SegmentImportance(...), which the caller has checked to succeed;
\* any other field name falls through the elif chain and assigns nothing.
update_segment(seg, c) ==
    IF c.field = "name" THEN [seg EXCEPT !.name = c.new_value]
    ELSE IF c.field = "description" THEN [seg EXCEPT !.description = c.new_value]
    ELSE IF c.field = "persona" THEN [seg EXCEPT !.persona = c.new_value]
    ELSE IF c.field = "importance" THEN [seg EXCEPT !.importance = c.new_value]
    ELSE seg

\* Lines 357-390.  The outcome ValueError is SegmentImportance(new_value)
\* raising on a value outside the enum: the exception leaves the function
\* before state["segments"] is assigned.
apply_segments(s, c) ==
    LET segs == s.segments
        snapshot_before == [items |-> segs]
        done(new) ==
            LET s1 == [s EXCEPT !.segments = new]
            IN  [st |-> record_version(s1, CanvasVersion(s1, c, snapshot_before, [items |-> new])),
                 outcome |-> "applied"]
    IN  IF c.action = "add" /\ Truthy(c.new_value)
        THEN IF \E i \in 1..Len(segs) : segs[i].name = c.new_value
             THEN done(segs)
             ELSE done(Append(segs, CustomerSegment(c.new_value,
                                   IF c.field # "name" THEN c.field ELSE "",
                                   "", "fairly_important")))
        ELSE IF c.action = "remove" /\ Truthy(c.old_value)
        THEN done(SelectSeq(segs, LAMBDA seg : seg.name # c.old_value))
        ELSE IF c.action = "update" /\ Truthy(c.old_value) /\ Truthy(c.new_value)
        THEN LET hits == {i \in 1..Len(segs) : segs[i].name = c.old_value}
             IN  IF hits = {}
                 THEN [st |-> s, outcome |-> "segment_not_found"]
                 ELSE LET k == CHOOSE i \in hits : \A j \in hits : i <= j
                      IN  IF c.field = "importance" /\ c.new_value \notin SegmentImportance
                          THEN [st |-> s, outcome |-> "ValueError"]
                          ELSE done([segs EXCEPT ![k] = update_segment(@, c)])
        ELSE done(segs)

\* Lines 305-407: the new state and the outcome (applied, or why not).
apply_single_change(s, c) ==
    IF c.canvas_type = "bmc" THEN apply_bmc(s, c)
    ELSE IF c.canvas_type = "vpc" THEN apply_vpc(s, c)
    ELSE IF c.canvas_type = "segments" THEN apply_segments(s, c)
    ELSE [st |-> s, outcome |-> "unknown_canvas_type"]

(***************************************************************************)
(* tools.py: the tools.  Each returns the new state and its outcome.       *)
(***************************************************************************)
\* Mutant of enqueue: the change is put at the head of the queue.
enqueue_front(pending, change) == <<change>> \o pending

\* pending.append(change.model_dump()), lines 127-128.
enqueue(pending, change) == Append(pending, change)

\* propose_canvas_update, lines 103-138.  CanvasType(canvas_type) and
\* ChangeAction(action) raise ValueError on a value outside the enum, before
\* anything is read or written.  Constructing the ProposedChange draws its
\* id.  An exception of the apply leaves the tool (raised).
propose_canvas_update(s, in) ==
    IF in.canvas_type \notin CanvasType \/ in.action \notin ChangeAction
    THEN [st |-> s, outcome |-> "ValueError", raised |-> TRUE, id |-> 0]
    ELSE
    LET id == s.uuid + 1
        s0 == [s EXCEPT !.uuid = id]
        change == ProposedChange(id, in)
    IN  IF change.change_hash \in existing_hashes(s0)
        THEN [st |-> s0, outcome |-> "duplicate", raised |-> FALSE, id |-> id]
        ELSE IF s0.auto_mode
        THEN LET r == apply_single_change(s0, change)
             IN  [st |-> r.st, outcome |-> r.outcome,
                  raised |-> (r.outcome = "ValueError"), id |-> id]
        ELSE [st |-> [s0 EXCEPT !.pending_changes = enqueue(@, change)],
              outcome |-> "pending", raised |-> FALSE, id |-> id]

\* next((c for c in pending if c["id"] == cid), None): 0 stands for None.
find_pending(pending, cid) ==
    LET hits == {i \in 1..Len(pending) : pending[i].id = cid}
    IN  IF hits = {} THEN 0 ELSE CHOOSE i \in hits : \A j \in hits : i <= j

\* The for loop of apply_proposed_changes, lines 157-170, over the ids left;
\* an exception of the apply ends the loop and the call.
RECURSIVE apply_loop(_, _, _, _)
apply_loop(s, pending, ids, results) ==
    IF ids = <<>>
    THEN [st |-> s, results |-> results, raised |-> FALSE]
    ELSE LET k == find_pending(pending, Head(ids))
         IN  IF k = 0
             THEN apply_loop(s, pending, Tail(ids), Append(results, "not_found"))
             ELSE IF pending[k].change_hash \in existing_hashes(s)
             THEN apply_loop(s, pending, Tail(ids), Append(results, "duplicate"))
             ELSE LET r == apply_single_change(s, pending[k])
                  IN  IF r.outcome = "ValueError"
                      THEN [st |-> r.st, results |-> results, raised |-> TRUE]
                      ELSE apply_loop(r.st, pending, Tail(ids), Append(results, r.outcome))

\* Mutant of without_batch: only the first id of the batch is removed.
without_first_of_batch(pending, ids) ==
    SelectSeq(pending, LAMBDA c : ids = <<>> \/ c.id # Head(ids))

\* Lines 172-173: the pending changes whose id is not in the batch.
without_batch(pending, ids) == SelectSeq(pending, LAMBDA c : ~InList(c.id, ids))

\* apply_proposed_changes, lines 149-174.  When the loop raises, line 173 is
\* never reached and the results are lost with the call.
apply_proposed_changes(s, change_ids) ==
    LET pending == s.pending_changes
        ids == IF change_ids = <<>>
               THEN [i \in 1..Len(pending) |-> pending[i].id]
               ELSE change_ids
        r == apply_loop(s, pending, ids, <<>>)
    IN  IF r.raised
        THEN r
        ELSE [st |-> [r.st EXCEPT !.pending_changes = without_batch(pending, ids)],
              results |-> r.results, raised |-> FALSE]

\* Python q[start:] for an int start: a negative start counts from the end,
\* and both are clamped to the list.
slice_from(q, start) ==
    LET from == IF start < 0
                THEN (IF Len(q) + start < 0 THEN 0 ELSE Len(q) + start)
                ELSE (IF start > Len(q) THEN Len(q) ELSE start)
    IN  SubSeq(q, from + 1, Len(q))

\* reversed(q)
reversed(q) == [i \in 1..Len(q) |-> q[Len(q) - i + 1]]

\* One line of the history (without the timestamp), lines 198-201.
history_line(v) ==
    [change_description |-> v.change_description, applied_by |-> v.applied_by]

\* get_version_history, lines 185-202: the filter of line 189 applies to a
\* canvas_type that is neither None nor empty; recent is versions[-limit:].
get_version_history(s, canvas_type, limit) ==
    LET filtered == IF Truthy(canvas_type)
                    THEN SelectSeq(s.versions, LAMBDA v : v.canvas_type = canvas_type)
                    ELSE s.versions
        recent == slice_from(filtered, 0 - limit)
    IN  IF recent = <<>>
        THEN [outcome |-> "no_history", lines |-> <<>>]
        ELSE [outcome |-> "history",
              lines |-> [i \in 1..Len(recent) |-> history_line(reversed(recent)[i])]]

\* Lines 225-230 and 257-262: install a snapshot as the live canvas.
restore(s, canvas_type, snapshot) ==
    IF canvas_type = "bmc" THEN [s EXCEPT !.bmc = snapshot]
    ELSE IF canvas_type = "vpc" THEN [s EXCEPT !.vpc = snapshot]
    ELSE IF canvas_type = "segments" THEN [s EXCEPT !.segments = snapshot.items]
    ELSE s

\* Mutant of undo_last_change: the entry stays in the version log.
undo_keeps_version(s) ==
    IF s.undo_stack = <<>>
    THEN [st |-> s, outcome |-> "nothing_to_undo"]
    ELSE LET last_version == s.undo_stack[Len(s.undo_stack)]
             s1 == [s EXCEPT
                      !.undo_stack = SubSeq(@, 1, Len(@) - 1),
                      !.redo_stack = Append(@, last_version)]
         IN  [st |-> restore(s1, last_version.canvas_type, last_version.snapshot_before),
              outcome |-> "undone"]

\* undo_last_change, lines 208-232.
undo_last_change(s) ==
    IF s.undo_stack = <<>>
    THEN [st |-> s, outcome |-> "nothing_to_undo"]
    ELSE LET last_version == s.undo_stack[Len(s.undo_stack)]
             s1 == [s EXCEPT
                      !.undo_stack = SubSeq(@, 1, Len(@) - 1),
                      !.redo_stack = Append(@, last_version),
                      !.versions = SelectSeq(@, LAMBDA v :
                                      v.change_hash # last_version.change_hash)]
         IN  [st |-> restore(s1, last_version.canvas_type, last_version.snapshot_before),
              outcome |-> "undone"]

\* Mutant of redo_change: snapshot_before is installed.
redo_installs_snapshot_before(s) ==
    IF s.redo_stack = <<>>
    THEN [st |-> s, outcome |-> "nothing_to_redo"]
    ELSE LET version == s.redo_stack[Len(s.redo_stack)]
             s1 == [s EXCEPT
                      !.redo_stack = SubSeq(@, 1, Len(@) - 1),
                      !.undo_stack = Append(@, version),
                      !.versions = IF version.change_hash \in existing_hashes(s)
                                   THEN @ ELSE Append(@, version)]
         IN  [st |-> restore(s1, version.canvas_type, version.snapshot_before),
              outcome |-> "redone"]

\* Mutant of redo_change: the entry stays on the redo stack.
redo_without_pop(s) ==
    IF s.redo_stack = <<>>
    THEN [st |-> s, outcome |-> "nothing_to_redo"]
    ELSE LET version == s.redo_stack[Len(s.redo_stack)]
             s1 == [s EXCEPT
                      !.undo_stack = Append(@, version),
                      !.versions = IF version.change_hash \in existing_hashes(s)
                                   THEN @ ELSE Append(@, version)]
         IN  [st |-> restore(s1, version.canvas_type, version.snapshot_after),
              outcome |-> "redone"]

\* redo_change, lines 238-264.
redo_change(s) ==
    IF s.redo_stack = <<>>
    THEN [st |-> s, outcome |-> "nothing_to_redo"]
    ELSE LET version == s.redo_stack[Len(s.redo_stack)]
             s1 == [s EXCEPT
                      !.redo_stack = SubSeq(@, 1, Len(@) - 1),
                      !.undo_stack = Append(@, version),
                      !.versions = IF version.change_hash \in existing_hashes(s)
                                   THEN @ ELSE Append(@, version)]
         IN  [st |-> restore(s1, version.canvas_type, version.snapshot_after),
              outcome |-> "redone"]

(***************************************************************************)
(* main.py: the endpoints that write the canvas state                      *)
(***************************************************************************)
\* Mutant of reject_change: the change removed is not recorded as rejected.
reject_forgets_change(s, change_id) ==
    LET kept == SelectSeq(s.pending_changes, LAMBDA c : c.id # change_id)
        s1 == [s EXCEPT !.pending_changes = kept]
    IN  IF Len(s.pending_changes) = Len(kept)
        THEN [st |-> s1, outcome |-> "not_found", remaining |-> Len(kept)]
        ELSE [st |-> s1, outcome |-> "rejected", remaining |-> Len(kept)]

\* reject_change, lines 380-393.
reject_change(s, change_id) ==
    LET before == Len(s.pending_changes)
        k == find_pending(s.pending_changes, change_id)
        kept == SelectSeq(s.pending_changes, LAMBDA c : c.id # change_id)
        s1 == [s EXCEPT !.pending_changes = kept]
        after == Len(kept)
    IN  IF before = after
        THEN [st |-> s1, outcome |-> "not_found", remaining |-> after]
        ELSE [st |-> [s1 EXCEPT !.rejected_changes = Append(@, s.pending_changes[k])],
              outcome |-> "rejected", remaining |-> after]

\* Mutant of update_thread_state: switching auto mode on applies what is
\* pending.
update_thread_state_applies_pending(s, value) ==
    IF value
    THEN apply_proposed_changes([s EXCEPT !.auto_mode = value], <<>>).st
    ELSE [s EXCEPT !.auto_mode = value]

\* update_thread_state, lines 329-331: the auto_mode toggle.
update_thread_state(s, value) == [s EXCEPT !.auto_mode = value]

\* tools.py log_action_outcome, lines 283-291 (the entry without its id and
\* timestamp).
log_action_outcome(s, action_name, outcome, learnings) ==
    [s EXCEPT !.action_log =
         Append(@, [action_name |-> action_name, outcome |-> outcome,
                    learnings |-> learnings])]

(***************************************************************************)
(* state.py: the registry of thread states                                 *)
(***************************************************************************)
\* Mutant of thread_key: every thread id is looked up under one key.
thread_key_shared(store, thread_id) ==
    IF DOMAIN store = {} THEN thread_id ELSE CHOOSE k \in DOMAIN store : TRUE

\* The key of canvas_store under which the state of thread_id is kept.
thread_key(store, thread_id) == thread_id

\* Lines 23-35: canvas_store once thread_id has been referenced.
referenced(store, thread_id) ==
    LET key == thread_key(store, thread_id)
    IN  [k \in DOMAIN store \cup {key} |->
            IF k \in DOMAIN store THEN store[k] ELSE get_canvas_state]

\* Line 36: the state get_canvas_state(thread_id) returns.
thread_state(store, thread_id) ==
    referenced(store, thread_id)[thread_key(store, thread_id)]

\* The state a call for thread_id works on: the dict get_canvas_state(thread_id)
\* returns; ids is the number of ids drawn before the call.
entered(store, ids, thread_id) ==
    [thread_state(store, thread_id) EXCEPT !.uuid = ids]

\* canvas_store and the id counter once the call for thread_id has left that
\* dict as st.
on_thread(store, thread_id, st) ==
    LET key == thread_key(store, thread_id)
    IN  [store |-> [referenced(store, thread_id) EXCEPT ![key] = [st EXCEPT !.uuid = 0]],
         uuid |-> st.uuid]

\* main.py _create_thread, line 90 (and every endpoint that reads the canvas
\* state): a reference to thread_id and nothing else.
create_thread(store, thread_id) == referenced(store, thread_id)

\* Mutant of delete_thread: the canvas state stays in the registry.
delete_thread_keeps_canvas(store, thread_id) == store

\* main.py delete_thread, lines 276-277.
delete_thread(store, thread_id) ==
    IF thread_id \in DOMAIN store
    THEN [k \in DOMAIN store \ {thread_id} |-> store[k]]
    ELSE store

(***************************************************************************)
(* Overlapping calls on one thread.  A frame is a call in progress: its    *)
(* position pc and its local variables.  The local `pending` of            *)
(* apply_proposed_changes names the list object that was                   *)
(* state["pending_changes"] at line 151: while that object is still the    *)
(* live list (same_list) the call sees what is appended to it; once        *)
(* reject_change or another apply_proposed_changes has assigned a new list *)
(* to state["pending_changes"], the call keeps the old one.                *)
(***************************************************************************)
\* Lines 103-118: the change record is built and its hash looked up.
propose_check(s, in) ==
    LET id == s.uuid + 1
        s0 == [s EXCEPT !.uuid = id]
        change == ProposedChange(id, in)
    IN  [st |-> s0, change |-> change,
         duplicate |-> change.change_hash \in existing_hashes(s0)]

\* Lines 127-128: the change is queued.
propose_queue(s, change) == [s EXCEPT !.pending_changes = enqueue(@, change)]

\* _apply_single_change up to the assignment to the canvas (lines 307-327,
\* 333-352, 358-387): the canvas is read, and snapshot_before and the new
\* content are held in local variables.
apply_read(s, c) ==
    LET r == apply_single_change(s, c)
        version == r.st.versions[Len(r.st.versions)]
    IN  IF r.outcome = "applied"
        THEN [outcome |-> "applied",
              before |-> version.snapshot_before,
              after |-> version.snapshot_after]
        ELSE [outcome |-> r.outcome, before |-> None, after |-> None]

\* _apply_single_change from the assignment to the canvas to its return
\* (lines 329-330, 354-355, 389-390, 394-405), on the state as it is then.
apply_write(s, c, before, after) ==
    LET s1 == IF c.canvas_type = "bmc" THEN [s EXCEPT !.bmc = after]
              ELSE IF c.canvas_type = "vpc" THEN [s EXCEPT !.vpc = after]
              ELSE [s EXCEPT !.segments = after.items]
    IN  record_version(s1, CanvasVersion(s1, c, before, after))

\* Lines 154-155: the ids of the batch.
batch_ids(pending, change_ids) ==
    IF change_ids = <<>>
    THEN [i \in 1..Len(pending) |-> pending[i].id]
    ELSE change_ids

\* Lines 158-170: one iteration of the loop, for the id cid, on the list
\* the local `pending` names.
apply_step(s, pending, cid) ==
    LET k == find_pending(pending, cid)
    IN  IF k = 0 THEN [st |-> s, outcome |-> "not_found"]
        ELSE IF pending[k].change_hash \in existing_hashes(s)
        THEN [st |-> s, outcome |-> "duplicate"]
        ELSE apply_single_change(s, pending[k])

idle ==
    [op |-> "none", pc |-> "idle", change |-> None, pending |-> <<>>,
     same_list |-> FALSE, ids |-> <<>>, results |-> <<>>, outcome |-> None,
     before |-> None, after |-> None]

\* The list the local `pending` of the call names.
pending_of(frame, live) == IF frame.same_list THEN live ELSE frame.pending

\* state["pending_changes"] is assigned a new list: the calls that named the
\* live list keep the old object, with the content it had.
rebound(frames, live) ==
    [k \in DOMAIN frames |->
        IF frames[k].same_list
        THEN [frames[k] EXCEPT !.same_list = FALSE, !.pending = live]
        ELSE frames[k]]

(***************************************************************************)
(* The calls made on the thread and their arguments                        *)
(***************************************************************************)
In(ct, f, a, o, n) ==
    [canvas_type |-> ct, field |-> f, action |-> a, old_value |-> o,
     new_value |-> n, reason |-> "evidence"]

KP1 == "Cloud infrastructure providers"
KP2 == "University incubators"
Pain1 == "Manual canvas updates are tedious"
TF == "Technical Founders"

\* The arguments of propose_canvas_update that are tried on each canvas:
\* adds, updates and removes that hit and that miss, two removes with one
\* fingerprint, and a field the canvas does not have.
BmcInputs ==
    {In("bmc", "key_partners", "add", None, "Acme Cloud"),
     In("bmc", "key_partners", "remove", KP1, None),
     In("bmc", "key_partners", "remove", KP2, None),
     In("bmc", "key_partners", "update", KP1, "Acme Cloud"),
     In("bmc", "partners", "add", None, "Acme Cloud")}

VpcInputs ==
    {In("vpc", "pains", "add", None, "Slow feedback"),
     In("vpc", "pains", "update", Pain1, "Slow feedback"),
     In("vpc", "pains", "remove", Pain1, None),
     In("vpc", "aches", "add", None, "Slow feedback")}

\* Segment changes: an add, a remove, updates of a live segment (a text
\* field, importance with a value outside the enum, a field a segment does
\* not have), and updates that name no live segment, with and without a new
\* value.
SegmentsInputs ==
    {In("segments", "name", "add", None, "Students"),
     In("segments", "name", "remove", TF, None),
     In("segments", "persona", "update", TF, "Senior engineer, 5 yrs"),
     In("segments", "persona", "update", "Alex", "Senior engineer, 5 yrs"),
     In("segments", "persona", "update", "Alex", None),
     In("segments", "importance", "update", TF, "crucial"),
     In("segments", "nickname", "update", TF, "Techies")}

\* Changes spread over the three canvases, and a canvas type outside the enum.
MixedInputs ==
    {In("bmc", "key_partners", "add", None, "Acme Cloud"),
     In("roadmap", "goals", "add", None, "Acme Cloud"),
     In("vpc", "pains", "update", Pain1, "Slow feedback"),
     In("segments", "name", "add", None, "Students"),
     In("segments", "persona", "update", TF, "Senior engineer, 5 yrs")}

\* A run's proposals are drawn from the inputs of its focus.
Focuses == {"bmc", "vpc", "segments", "mixed"}

InputsOf(f) ==
    IF f = "bmc" THEN BmcInputs
    ELSE IF f = "vpc" THEN VpcInputs
    ELSE IF f = "segments" THEN SegmentsInputs
    ELSE MixedInputs

ProposeInputs == InputsOf(focus)

\* An id that no ProposedChange was ever given.
BogusId == 0

PendingIds == {pending_changes[i].id : i \in 1..Len(pending_changes)}

\* The id lists tried: the empty list (all pending), and every list of one
\* or two ids drawn from the pending ids and the bogus id.
BatchInputs ==
    LET ids == PendingIds \cup {BogusId}
    IN  {<<>>} \cup {<<a>> : a \in ids} \cup {<<a, b>> : a \in ids, b \in ids}

Install(s) ==
    /\ bmc' = s.bmc
    /\ vpc' = s.vpc
    /\ segments' = s.segments
    /\ versions' = s.versions
    /\ pending_changes' = s.pending_changes
    /\ rejected_changes' = s.rejected_changes
    /\ undo_stack' = s.undo_stack
    /\ redo_stack' = s.redo_stack
    /\ auto_mode' = s.auto_mode
    /\ uuid' = s.uuid
    /\ focus' = focus
    /\ canvas_store' = canvas_store
    /\ memory' = memory
    /\ calls' = calls

\* The thread is in the state get_canvas_state creates.
Fresh ==
    /\ bmc = get_canvas_state.bmc
    /\ vpc = get_canvas_state.vpc
    /\ segments = get_canvas_state.segments
    /\ versions = get_canvas_state.versions
    /\ pending_changes = get_canvas_state.pending_changes
    /\ rejected_changes = get_canvas_state.rejected_changes
    /\ undo_stack = get_canvas_state.undo_stack
    /\ redo_stack = get_canvas_state.redo_stack
    /\ auto_mode = get_canvas_state.auto_mode
    /\ uuid = get_canvas_state.uuid
    /\ canvas_store = <<>>
    /\ memory = new_memory
    /\ calls = [k \in Workers |-> idle]

Init ==
    /\ Fresh
    /\ focus \in Focuses

Propose(in) ==
    /\ uuid < MaxUuid
    /\ Install(propose_canvas_update(State, in).st)

ApplyApproved(ids) == Install(apply_proposed_changes(State, ids).st)

Undo == Install(undo_last_change(State).st)

Redo == Install(redo_change(State).st)

Reject(id) == Install(reject_change(State, id).st)

SetAutoMode(value) == Install(update_thread_state(State, value))

Next ==
    \/ \E in \in ProposeInputs : Propose(in)
    \/ \E ids \in BatchInputs : ApplyApproved(ids)
    \/ Undo
    \/ Redo
    \/ \E id \in PendingIds \cup {BogusId} : Reject(id)
    \/ \E value \in BOOLEAN : SetAutoMode(value)

Spec == Init /\ [][Next]_vars

(***************************************************************************)
(* Construction of change records: manual-mode proposals on a fresh        *)
(* thread, over fields and values that include the empty string, an absent *)
(* value and the separator of the pre-hash key.                            *)
(***************************************************************************)
HashInputs ==
    {[canvas_type |-> ct, field |-> f, action |-> a, old_value |-> o,
      new_value |-> n, reason |-> why] :
        ct \in {"bmc", "segments"}, f \in {"f", "f|add|x"},
        a \in {"add", "update"}, o \in {None, "o"},
        n \in {None, "", "y", "x|add|y"}, why \in {"", "evidence"}}

HashInit ==
    /\ Fresh
    /\ focus = "mixed"

Construct(in) ==
    /\ uuid < MaxUuid
    /\ ~auto_mode
    /\ Install(propose_canvas_update(State, in).st)

HashNext == \E in \in HashInputs : Construct(in)

HashSpec == HashInit /\ [][HashNext]_vars

(***************************************************************************)
(* The canvases as objects: heap is the sequence of objects allocated so   *)
(* far, an address is an index into it.                                    *)
(***************************************************************************)
\* A new object with the given content.
alloc(heap, value) == [heap |-> Append(heap, value), addr |-> Len(heap) + 1]

\* Mutant of dict_copy: the same object under another name.
dict_alias(heap, addr) == [heap |-> heap, addr |-> addr]

\* dict(d): a new dict with the items of d (tools.py 312, 313, 330).
dict_copy(heap, addr) == alloc(heap, heap[addr])

\* version.model_dump(): the entry with new snapshot objects.
model_dump(heap, version) ==
    LET b == alloc(heap, heap[version.snapshot_before])
        a == alloc(b.heap, b.heap[version.snapshot_after])
    IN  [heap |-> a.heap,
         entry |-> [version EXCEPT !.snapshot_before = b.addr,
                                   !.snapshot_after = a.addr]]

\* Lines 395-405 on objects: both dumps are appended, the redo stack is
\* replaced by an empty list.
mem_record_version(m, heap, c, before, after) ==
    LET version == [canvas_type |-> c.canvas_type, change_hash |-> c.change_hash,
                    snapshot_before |-> before, snapshot_after |-> after]
        d1 == model_dump(heap, version)
        d2 == model_dump(d1.heap, version)
    IN  [m EXCEPT !.heap = d2.heap,
                  !.versions = Append(@, d1.entry),
                  !.redo_stack = <<>>,
                  !.undo_stack = Append(@, d2.entry)]

\* Lines 311-330 on objects: canvas_dict is written in place, after
\* snapshot_before was copied from it and before snapshot_after is.
mem_apply_bmc(m, c) ==
    LET canvas_dict == dict_copy(m.heap, m.bmc)
        snapshot_before == dict_copy(canvas_dict.heap, canvas_dict.addr)
        written == [snapshot_before.heap EXCEPT
                        ![canvas_dict.addr][c.field] = bmc_field_after(@, c)]
        snapshot_after == dict_copy(written, canvas_dict.addr)
    IN  IF c.field \notin DOMAIN m.heap[m.bmc]
        THEN [m EXCEPT !.heap = snapshot_before.heap]
        ELSE [mem_record_version(m, snapshot_after.heap, c,
                                 snapshot_before.addr, snapshot_after.addr)
                 EXCEPT !.bmc = canvas_dict.addr]

\* Lines 332-355 on objects.
mem_apply_vpc(m, c) ==
    LET canvas_dict == dict_copy(m.heap, m.vpc)
        snapshot_before == dict_copy(canvas_dict.heap, canvas_dict.addr)
        written == [snapshot_before.heap EXCEPT
                        ![canvas_dict.addr][c.field] = vpc_field_after(@, c)]
        snapshot_after == dict_copy(written, canvas_dict.addr)
    IN  IF c.field \notin DOMAIN m.heap[m.vpc]
        THEN [m EXCEPT !.heap = snapshot_before.heap]
        ELSE [mem_record_version(m, snapshot_after.heap, c,
                                 snapshot_before.addr, snapshot_after.addr)
                 EXCEPT !.vpc = canvas_dict.addr]

\* Lines 357-390 on objects: the list of segments is rebuilt from model
\* objects (358), snapshot_before is a list of their dumps (359), the new
\* list of dumps becomes both the live list and snapshot_after["items"]
\* (389-390).  The content is that of apply_segments.
mem_apply_segments(m, c) ==
    LET r == apply_segments([segments |-> m.heap[m.segments], versions |-> <<>>,
                             undo_stack |-> <<>>, redo_stack |-> <<>>,
                             auto_mode |-> TRUE], c)
        snapshot_before == alloc(m.heap, m.heap[m.segments])
        live == alloc(snapshot_before.heap, r.st.segments)
    IN  IF r.outcome # "applied"
        THEN [m EXCEPT !.heap = snapshot_before.heap]
        ELSE [mem_record_version(m, live.heap, c, snapshot_before.addr, live.addr)
                 EXCEPT !.segments = live.addr]

\* _apply_single_change behind the duplicate check of lines 116-118 (and
\* 163-166).
mem_apply(m, c) ==
    IF c.change_hash \in {m.versions[i].change_hash : i \in 1..Len(m.versions)}
    THEN m
    ELSE IF c.canvas_type = "bmc" THEN mem_apply_bmc(m, c)
    ELSE IF c.canvas_type = "vpc" THEN mem_apply_vpc(m, c)
    ELSE IF c.canvas_type = "segments" THEN mem_apply_segments(m, c)
    ELSE m

\* Lines 225-230 and 257-262 on objects: state[canvas] = snapshot makes the
\* snapshot object the live canvas.
mem_restore(m, canvas_type, addr) ==
    IF canvas_type = "bmc" THEN [m EXCEPT !.bmc = addr]
    ELSE IF canvas_type = "vpc" THEN [m EXCEPT !.vpc = addr]
    ELSE IF canvas_type = "segments" THEN [m EXCEPT !.segments = addr]
    ELSE m

\* undo_last_change on objects, lines 210-230.
mem_undo(m) ==
    IF m.undo_stack = <<>> THEN m
    ELSE LET last_version == m.undo_stack[Len(m.undo_stack)]
             m1 == [m EXCEPT
                      !.undo_stack = SubSeq(@, 1, Len(@) - 1),
                      !.redo_stack = Append(@, last_version),
                      !.versions = SelectSeq(@, LAMBDA v :
                                      v.change_hash # last_version.change_hash)]
         IN  mem_restore(m1, last_version.canvas_type, last_version.snapshot_before)

\* redo_change on objects, lines 240-262: the entry popped is the one
\* appended to versions.
mem_redo(m) ==
    IF m.redo_stack = <<>> THEN m
    ELSE LET version == m.redo_stack[Len(m.redo_stack)]
             m1 == [m EXCEPT
                      !.redo_stack = SubSeq(@, 1, Len(@) - 1),
                      !.undo_stack = Append(@, version),
                      !.versions =
                          IF \E i \in 1..Len(@) : @[i].change_hash = version.change_hash
                          THEN @ ELSE Append(@, version)]
         IN  mem_restore(m1, version.canvas_type, version.snapshot_after)

MemoryInputs ==
    {In("bmc", "key_partners", "add", None, "Acme Cloud"),
     In("bmc", "key_partners", "remove", KP1, None),
     In("bmc", "partners", "add", None, "Acme Cloud"),
     In("vpc", "pains", "update", Pain1, "Slow feedback"),
     In("segments", "persona", "update", TF, "Senior engineer, 5 yrs")}

\* Only memory and the id counter change.
InstallMemory(m) ==
    /\ memory' = m
    /\ UNCHANGED <<bmc, vpc, segments, versions, pending_changes,
                   rejected_changes, undo_stack, redo_stack, auto_mode, focus,
                   canvas_store, calls>>

MemoryInit ==
    /\ Fresh
    /\ focus = "mixed"

\* A change record is built and reaches the apply.
MemoryApply(in) ==
    /\ uuid < MaxUuid
    /\ uuid' = uuid + 1
    /\ InstallMemory(mem_apply(memory, ProposedChange(uuid + 1, in)))

MemoryUndo == uuid' = uuid /\ InstallMemory(mem_undo(memory))

MemoryRedo == uuid' = uuid /\ InstallMemory(mem_redo(memory))

MemoryNext ==
    \/ \E in \in MemoryInputs : MemoryApply(in)
    \/ MemoryUndo
    \/ MemoryRedo

MemorySpec == MemoryInit /\ [][MemoryNext]_vars

(***************************************************************************)
(* Several threads: every call is made for one of the thread ids.          *)
(***************************************************************************)
ThreadIds == {"A", "B"}

\* At most MaxLog outcomes are logged per thread.
MaxLog == 1

ThreadInputs == {In("bmc", "key_partners", "add", None, "Acme Cloud")}

IdsOf(pending) == {pending[i].id : i \in 1..Len(pending)}

\* The id lists tried for a thread: all pending, one pending id, the bogus id.
ThreadBatches(store, tid) ==
    {<<>>} \cup {<<a>> : a \in IdsOf(thread_state(store, tid).pending_changes)
                               \cup {BogusId}}

\* canvas_store and the id counter after each call that can be made for tid.
AfterPropose(store, ids, tid) ==
    {on_thread(store, tid, propose_canvas_update(entered(store, ids, tid), in).st) :
        in \in ThreadInputs}

AfterApplyApproved(store, ids, tid) ==
    {on_thread(store, tid, apply_proposed_changes(entered(store, ids, tid), batch).st) :
        batch \in ThreadBatches(store, tid)}

AfterReject(store, ids, tid) ==
    {on_thread(store, tid, reject_change(entered(store, ids, tid), id).st) :
        id \in IdsOf(thread_state(store, tid).pending_changes) \cup {BogusId}}

AfterUndo(store, ids, tid) ==
    {on_thread(store, tid, undo_last_change(entered(store, ids, tid)).st)}

AfterRedo(store, ids, tid) ==
    {on_thread(store, tid, redo_change(entered(store, ids, tid)).st)}

AfterSetAutoMode(store, ids, tid) ==
    {on_thread(store, tid, update_thread_state(entered(store, ids, tid), value)) :
        value \in BOOLEAN}

AfterLogActionOutcome(store, ids, tid) ==
    {on_thread(store, tid,
               log_action_outcome(entered(store, ids, tid),
                                  "Interviews", "5 of 8 would pay", ""))}

\* Only canvas_store and the id counter change.
InstallStore(r) ==
    /\ canvas_store' = r.store
    /\ uuid' = r.uuid
    /\ UNCHANGED <<bmc, vpc, segments, versions, pending_changes,
                   rejected_changes, undo_stack, redo_stack, auto_mode, focus,
                   memory, calls>>

ThreadsInit ==
    /\ Fresh
    /\ focus = "mixed"

ThreadPropose(tid) ==
    /\ uuid < MaxUuid
    /\ \E r \in AfterPropose(canvas_store, uuid, tid) : InstallStore(r)

ThreadApplyApproved(tid) ==
    \E r \in AfterApplyApproved(canvas_store, uuid, tid) : InstallStore(r)

ThreadReject(tid) ==
    \E r \in AfterReject(canvas_store, uuid, tid) : InstallStore(r)

ThreadUndo(tid) ==
    \E r \in AfterUndo(canvas_store, uuid, tid) : InstallStore(r)

ThreadRedo(tid) ==
    \E r \in AfterRedo(canvas_store, uuid, tid) : InstallStore(r)

ThreadSetAutoMode(tid) ==
    \E r \in AfterSetAutoMode(canvas_store, uuid, tid) : InstallStore(r)

ThreadLogActionOutcome(tid) ==
    /\ Len(thread_state(canvas_store, tid).action_log) < MaxLog
    /\ \E r \in AfterLogActionOutcome(canvas_store, uuid, tid) : InstallStore(r)

ThreadCreate(tid) ==
    InstallStore([store |-> create_thread(canvas_store, tid), uuid |-> uuid])

ThreadDelete(tid) ==
    InstallStore([store |-> delete_thread(canvas_store, tid), uuid |-> uuid])

ThreadsNext ==
    \E tid \in ThreadIds :
        \/ ThreadPropose(tid)
        \/ ThreadApplyApproved(tid)
        \/ ThreadReject(tid)
        \/ ThreadUndo(tid)
        \/ ThreadRedo(tid)
        \/ ThreadSetAutoMode(tid)
        \/ ThreadLogActionOutcome(tid)
        \/ ThreadCreate(tid)
        \/ ThreadDelete(tid)

ThreadsSpec == ThreadsInit /\ [][ThreadsNext]_vars

(***************************************************************************)
(* Overlapping calls: the steps of the calls in progress, and the          *)
(* endpoints, in any order.                                                *)
(***************************************************************************)
RaceInputs == {In("bmc", "key_partners", "add", None, "Acme Cloud")}

\* The id lists tried: the empty list (all pending) and one pending id.
RaceBatches == {<<>>} \cup {<<a>> : a \in PendingIds}

\* The thread state and the calls in progress change.
InstallRace(s, frames) ==
    /\ bmc' = s.bmc
    /\ vpc' = s.vpc
    /\ segments' = s.segments
    /\ versions' = s.versions
    /\ pending_changes' = s.pending_changes
    /\ rejected_changes' = s.rejected_changes
    /\ undo_stack' = s.undo_stack
    /\ redo_stack' = s.redo_stack
    /\ auto_mode' = s.auto_mode
    /\ uuid' = s.uuid
    /\ calls' = frames
    /\ UNCHANGED <<focus, canvas_store, memory>>

RaceInit ==
    /\ Fresh
    /\ focus = "mixed"

Free(k) == calls[k].pc \in {"idle", "done"}

\* propose_canvas_update up to the duplicate check.
ProposeCheck(k, in) ==
    /\ Free(k)
    /\ uuid < MaxUuid
    /\ LET r == propose_check(State, in)
       IN  InstallRace(r.st,
               [calls EXCEPT ![k] =
                   [idle EXCEPT !.op = "propose", !.change = r.change,
                                !.pc = IF r.duplicate THEN "done" ELSE "act",
                                !.outcome = IF r.duplicate THEN "duplicate" ELSE None]])

\* propose_canvas_update from the read of auto_mode (line 120): in manual
\* mode the change is queued and the call returns; in auto mode
\* _apply_single_change runs up to the assignment to the canvas.
ProposeAct(k) ==
    /\ calls[k].op = "propose"
    /\ calls[k].pc = "act"
    /\ IF auto_mode
       THEN LET r == apply_read(State, calls[k].change)
            IN  InstallRace(State,
                    [calls EXCEPT ![k] =
                        [@ EXCEPT !.pc = IF r.outcome = "applied" THEN "write" ELSE "done",
                                  !.outcome = IF r.outcome = "applied" THEN None ELSE r.outcome,
                                  !.before = r.before, !.after = r.after]])
       ELSE InstallRace(propose_queue(State, calls[k].change),
                [calls EXCEPT ![k] = [@ EXCEPT !.pc = "done", !.outcome = "pending"]])

\* The rest of _apply_single_change: the canvas is assigned and the version
\* recorded.
ProposeWrite(k) ==
    /\ calls[k].op = "propose"
    /\ calls[k].pc = "write"
    /\ InstallRace(apply_write(State, calls[k].change, calls[k].before, calls[k].after),
           [calls EXCEPT ![k] =
               [@ EXCEPT !.pc = "done", !.outcome = "applied",
                         !.before = None, !.after = None]])

\* apply_proposed_changes up to the loop.
ApplyBegin(k, change_ids) ==
    /\ Free(k)
    /\ InstallRace(State,
           [calls EXCEPT ![k] =
               [idle EXCEPT !.op = "apply", !.pc = "loop", !.same_list = TRUE,
                            !.ids = batch_ids(pending_changes, change_ids)]])

\* One iteration of the loop of apply_proposed_changes.
ApplyStep(k) ==
    /\ calls[k].op = "apply"
    /\ calls[k].pc = "loop"
    /\ Len(calls[k].results) < Len(calls[k].ids)
    /\ LET cid == calls[k].ids[Len(calls[k].results) + 1]
           r == apply_step(State, pending_of(calls[k], pending_changes), cid)
       IN  InstallRace(r.st,
               [calls EXCEPT ![k] =
                   IF r.outcome = "ValueError"
                   THEN [idle EXCEPT !.op = "apply", !.pc = "done",
                                     !.outcome = "ValueError"]
                   ELSE [@ EXCEPT !.results = Append(@, r.outcome)]])

\* Lines 172-174 of apply_proposed_changes: the list is written back.
ApplyEnd(k) ==
    /\ calls[k].op = "apply"
    /\ calls[k].pc = "loop"
    /\ Len(calls[k].results) = Len(calls[k].ids)
    /\ LET kept == without_batch(pending_of(calls[k], pending_changes), calls[k].ids)
           frames == rebound(calls, pending_changes)
       IN  InstallRace([State EXCEPT !.pending_changes = kept],
               [frames EXCEPT ![k] =
                   [idle EXCEPT !.op = "apply", !.pc = "done",
                                !.outcome = "returned"]])

\* reject_change, on the event loop.
RaceReject(id) ==
    InstallRace(reject_change(State, id).st, rebound(calls, pending_changes))

RaceSetAutoMode(value) == InstallRace(update_thread_state(State, value), calls)

\* undo_last_change and redo_change, each taken as one step: they neither
\* read nor assign state["pending_changes"].
RaceUndo == InstallRace(undo_last_change(State).st, calls)

RaceRedo == InstallRace(redo_change(State).st, calls)

RaceNext ==
    \/ \E k \in Workers : \E in \in RaceInputs : ProposeCheck(k, in)
    \/ \E k \in Workers : ProposeAct(k)
    \/ \E k \in Workers : ProposeWrite(k)
    \/ \E k \in Workers : \E ids \in RaceBatches : ApplyBegin(k, ids)
    \/ \E k \in Workers : ApplyStep(k)
    \/ \E k \in Workers : ApplyEnd(k)
    \/ \E id \in PendingIds : RaceReject(id)
    \/ \E value \in BOOLEAN : RaceSetAutoMode(value)
    \/ RaceUndo
    \/ RaceRedo

RaceSpec == RaceInit /\ [][RaceNext]_vars

(***************************************************************************)
(* Properties                                                              *)
(***************************************************************************)
SameCanvases(s, t) ==
    s.bmc = t.bmc /\ s.vpc = t.vpc /\ s.segments = t.segments

\* Canvases, version log, undo stack, redo stack and pending changes agree.
SameStore(s, t) ==
    /\ SameCanvases(s, t)
    /\ s.versions = t.versions
    /\ s.undo_stack = t.undo_stack
    /\ s.redo_stack = t.redo_stack
    /\ s.pending_changes = t.pending_changes

Count(x, q) == Cardinality({i \in 1..Len(q) : q[i] = x})

HashCount(h, vs) == Cardinality({i \in 1..Len(vs) : vs[i].change_hash = h})

Last(q) == q[Len(q)]

\* q is p with exactly one element added at the tail.
GrownByOne(p, q) == Len(q) = Len(p) + 1 /\ SubSeq(q, 1, Len(p)) = p

SameTuple(a, b) ==
    /\ a.canvas_type = b.canvas_type
    /\ a.field = b.field
    /\ a.action = b.action
    /\ a.new_value = b.new_value

\* C1: in every reachable state no two entries of the version log have the
\* same fingerprint.
C1_NoTwoVersionsShareFingerprint ==
    \A i, j \in 1..Len(versions) :
        i # j => versions[i].change_hash # versions[j].change_hash

\* Two versions are in the log while a change with the fingerprint of one of
\* them is offered again.
C1_Witness ==
    /\ Len(versions) >= 2
    /\ \E in \in ProposeInputs : compute_hash(in) \in existing_hashes(State)

\* Two propose calls in a row with the same arguments.
ProposeTwice(s, in) ==
    LET r1 == propose_canvas_update(s, in)
    IN  [first |-> r1, second |-> propose_canvas_update(r1.st, in)]

\* C2 as stated: in auto mode, proposing the same (canvas_type, field,
\* action, new_value) twice in a row yields exactly one version entry for
\* that fingerprint, the second propose reports duplicate, and it leaves the
\* canvases, version log, undo stack, redo stack and pending_changes as they
\* were after the first call.
C2_Original ==
    auto_mode =>
        \A in \in ProposeInputs :
            LET p == ProposeTwice(State, in)
            IN  /\ HashCount(compute_hash(in), p.second.st.versions) = 1
                /\ p.second.outcome = "duplicate"
                /\ SameStore(p.second.st, p.first.st)

\* C2 as amended: the same, for a first propose that is applied or is itself
\* reported duplicate; whatever the first propose did, the second leaves the
\* canvases, version log, undo stack, redo stack and pending_changes as they
\* were after the first call.
C2_Amended ==
    auto_mode =>
        \A in \in ProposeInputs :
            LET p == ProposeTwice(State, in)
            IN  /\ p.first.outcome \in {"applied", "duplicate"} =>
                       /\ HashCount(compute_hash(in), p.second.st.versions) = 1
                       /\ p.second.outcome = "duplicate"
                /\ SameStore(p.second.st, p.first.st)

\* An auto-mode propose has just been applied, and proposing it again is a
\* duplicate.
C2_Witness ==
    /\ auto_mode
    /\ versions # <<>>
    /\ Last(versions).applied_by = "auto"
    /\ \E in \in ProposeInputs :
           /\ compute_hash(in) = Last(versions).change_hash
           /\ propose_canvas_update(State, in).outcome = "duplicate"

RECURSIVE UndoTimes(_, _)
UndoTimes(s, n) == IF n = 0 THEN s ELSE UndoTimes(undo_last_change(s).st, n - 1)

RECURSIVE RedoTimes(_, _)
RedoTimes(s, n) == IF n = 0 THEN s ELSE RedoTimes(redo_change(s).st, n - 1)

\* C3: from any reachable state whose undo stack holds at least N entries,
\* N undo calls followed by N redo calls restore the three canvases and the
\* set of fingerprints in the version log.
C3_UndoRedoRoundTrip ==
    \A n \in 1..Len(undo_stack) :
        LET t == RedoTimes(UndoTimes(State, n), n)
        IN  /\ SameCanvases(t, State)
            /\ existing_hashes(t) = existing_hashes(State)

\* Two applied changes on different canvases, both of which the undos revert.
C3_Witness ==
    /\ Len(undo_stack) >= 2
    /\ undo_stack[1].canvas_type # undo_stack[2].canvas_type
    /\ \A i \in 1..2 : undo_stack[i].snapshot_before # undo_stack[i].snapshot_after
    /\ ~SameCanvases(UndoTimes(State, 1), State)
    /\ ~SameCanvases(UndoTimes(State, 2), UndoTimes(State, 1))

\* The change `in` proposed in auto mode from s, undone if it was applied,
\* and then `again` proposed with auto_mode set to mode.
Repropose(s, in, again, mode) ==
    LET r1 == propose_canvas_update(update_thread_state(s, TRUE), in)
        s2 == update_thread_state(undo_last_change(r1.st).st, mode)
    IN  [applied |-> r1.outcome = "applied",
         before |-> s2,
         after |-> propose_canvas_update(s2, again)]

\* The re-proposal was applied: one new version entry with its fingerprint.
ReappliedAsNew(x, again) ==
    /\ x.after.outcome = "applied"
    /\ GrownByOne(x.before.versions, x.after.st.versions)
    /\ Last(x.after.st.versions).change_hash = compute_hash(again)

\* The re-proposal was queued at the tail of pending_changes.
Requeued(x, again) ==
    /\ x.after.outcome = "pending"
    /\ GrownByOne(x.before.pending_changes, x.after.st.pending_changes)
    /\ SameTuple(Last(x.after.st.pending_changes), again)
    /\ x.after.st.versions = x.before.versions

\* C4 as stated: after a change has been applied and then undone, proposing
\* the same (canvas_type, field, action, new_value) again is not reported
\* duplicate; in auto mode it is applied and appends a new version entry with
\* that fingerprint, in manual mode it is queued.
C4_Original ==
    \A in, again \in ProposeInputs : \A mode \in BOOLEAN :
        LET x == Repropose(State, in, again, mode)
        IN  (SameTuple(in, again) /\ x.applied) =>
                /\ x.after.outcome # "duplicate"
                /\ mode => ReappliedAsNew(x, again)
                /\ ~mode => Requeued(x, again)

\* C4 as amended: it is applied in auto mode when it also has the old_value
\* of the change that was undone.
C4_Amended ==
    \A in, again \in ProposeInputs : \A mode \in BOOLEAN :
        LET x == Repropose(State, in, again, mode)
        IN  (SameTuple(in, again) /\ x.applied) =>
                /\ x.after.outcome # "duplicate"
                /\ (mode /\ again.old_value = in.old_value) => ReappliedAsNew(x, again)
                /\ ~mode => Requeued(x, again)

\* A change has been applied and undone: it is on the redo stack, its
\* fingerprint is not in the log, and proposing it again is accepted.
C4_Witness ==
    /\ redo_stack # <<>>
    /\ Last(redo_stack).change_hash \notin existing_hashes(State)
    /\ \E in \in ProposeInputs :
           /\ compute_hash(in) = Last(redo_stack).change_hash
           /\ propose_canvas_update(State, in).outcome \in {"applied", "pending"}

\* C5: in manual mode, a propose of a change record (canvas_type and action
\* in their enums) whose fingerprint is not in the version log appends
\* exactly one change record to the tail of pending_changes and leaves the
\* three canvases, the version log, the undo stack, the redo stack and
\* rejected_changes unchanged.
C5_ManualProposeOnlyQueues ==
    ~auto_mode =>
        \A in \in ProposeInputs :
            (in.canvas_type \in CanvasType /\ in.action \in ChangeAction
                /\ compute_hash(in) \notin existing_hashes(State)) =>
                LET r == propose_canvas_update(State, in)
                    queued == Last(r.st.pending_changes)
                IN  /\ r.outcome = "pending"
                    /\ GrownByOne(pending_changes, r.st.pending_changes)
                    /\ SameTuple(queued, in)
                    /\ queued.old_value = in.old_value
                    /\ queued.id = r.id
                    /\ queued.id \notin PendingIds
                    /\ SameCanvases(r.st, State)
                    /\ r.st.versions = versions
                    /\ r.st.undo_stack = undo_stack
                    /\ r.st.redo_stack = redo_stack
                    /\ r.st.rejected_changes = rejected_changes

\* Two changes were proposed in manual mode on a thread with history: both
\* are pending, in the order proposed, and a further one can be queued.
C5_Witness ==
    /\ ~auto_mode
    /\ Len(pending_changes) = 2
    /\ pending_changes[1].id < pending_changes[2].id
    /\ ~SameTuple(pending_changes[1], pending_changes[2])
    /\ \E in \in ProposeInputs :
           propose_canvas_update(State, in).outcome = "pending"

\* The change records that a not raising apply_proposed_changes(s, ids)
\* reported as applied, in the order of the batch.
RECURSIVE AppliedOf(_, _, _)
AppliedOf(pending, ids, results) ==
    IF ids = <<>> THEN <<>>
    ELSE (IF Head(results) = "applied"
          THEN <<pending[find_pending(pending, Head(ids))]>> ELSE <<>>)
         \o AppliedOf(pending, Tail(ids), Tail(results))

\* From log and stacks (v, u, redo) to (v2, u2, redo2): one version entry and
\* one undo entry were added per fingerprint of hashes, in that order, and
\* the redo stack is empty.
RecordedInOrder(v, u, v2, u2, redo2, hashes) ==
    /\ Len(v2) = Len(v) + Len(hashes)
    /\ Len(u2) = Len(u) + Len(hashes)
    /\ SubSeq(v2, 1, Len(v)) = v
    /\ SubSeq(u2, 1, Len(u)) = u
    /\ \A i \in 1..Len(hashes) :
           /\ v2[Len(v) + i].change_hash = hashes[i]
           /\ u2[Len(u) + i].change_hash = hashes[i]
    /\ redo2 = <<>>

\* C6: every successful apply, from an auto-mode propose or from
\* applyApproved, appends exactly one version entry carrying the change's
\* fingerprint, pushes exactly one entry with that fingerprint onto the undo
\* stack, and leaves the redo stack empty; on a thread without history an
\* auto-mode add of a new string to bmc.key_partners leaves the string in the
\* field exactly once, with versions and undo_stack of length 1.
C6_ApplyRecordsOneVersion ==
    /\ \A in \in ProposeInputs :
           LET r == propose_canvas_update(update_thread_state(State, TRUE), in)
           IN  r.outcome = "applied" =>
                   RecordedInOrder(versions, undo_stack, r.st.versions,
                                   r.st.undo_stack, r.st.redo_stack,
                                   <<compute_hash(in)>>)
    /\ \A ids \in BatchInputs :
           LET r == apply_proposed_changes(State, ids)
               done == AppliedOf(pending_changes,
                                 IF ids = <<>>
                                 THEN [i \in 1..Len(pending_changes) |-> pending_changes[i].id]
                                 ELSE ids,
                                 r.results)
           IN  (~r.raised /\ done # <<>>) =>
                   RecordedInOrder(versions, undo_stack, r.st.versions,
                                   r.st.undo_stack, r.st.redo_stack,
                                   [i \in 1..Len(done) |-> done[i].change_hash])
    /\ (versions = <<>> /\ undo_stack = <<>> /\ bmc = get_seed_bmc) =>
           \A in \in BmcInputs :
               (in.field = "key_partners" /\ in.action = "add"
                   /\ ~InList(in.new_value, bmc.key_partners)) =>
                   LET r == propose_canvas_update(update_thread_state(State, TRUE), in)
                   IN  /\ Count(in.new_value, r.st.bmc.key_partners) = 1
                       /\ Len(r.st.versions) = 1
                       /\ Len(r.st.undo_stack) = 1

\* Two changes were applied, one by an auto-mode propose and one by
\* applyApproved: each has its entry in the log and on the undo stack.
C6_Witness ==
    /\ Len(versions) = 2
    /\ undo_stack = versions
    /\ redo_stack = <<>>
    /\ versions[1].applied_by # versions[2].applied_by

ApplyOutcomes == {"applied", "invalid_field", "segment_not_found"}

\* C7 as stated: applyApproved with a batch mixing ids that are pending and
\* ids that are not processes every id in the order given: an unknown id
\* gives not-found without aborting the batch or raising, a known id with a
\* fresh fingerprint goes through the apply algorithm, the known batch ids
\* are removed from pending_changes and the other pending changes stay, in
\* their order.
C7_Claim ==
    \A ids \in BatchInputs \ {<<>>} :
        LET r == apply_proposed_changes(State, ids)
            known(i) == ids[i] \in PendingIds
            hash(i) == pending_changes[find_pending(pending_changes, ids[i])].change_hash
            fresh(i) == /\ known(i)
                        /\ hash(i) \notin existing_hashes(State)
                        /\ \A j \in 1..(i - 1) : known(j) => hash(j) # hash(i)
        IN  /\ ~r.raised
            /\ Len(r.results) = Len(ids)
            /\ \A i \in 1..Len(ids) :
                   /\ ~known(i) <=> r.results[i] = "not_found"
                   /\ fresh(i) => r.results[i] \in ApplyOutcomes
                   /\ (fresh(i) /\ r.results[i] = "applied") =>
                          hash(i) \in existing_hashes(r.st)
            /\ r.st.pending_changes =
                   SelectSeq(pending_changes, LAMBDA c : ~InList(c.id, ids))

\* C8: after applyApproved(ids) returns, no change whose id is in ids is in
\* pending_changes, whatever its outcome was (applied, duplicate, invalid
\* field, segment not found); with the empty list, ids are all pending ids.
C8_BatchIdsLeavePending ==
    \A ids \in BatchInputs :
        LET r == apply_proposed_changes(State, ids)
            batch == IF ids = <<>>
                     THEN [i \in 1..Len(pending_changes) |-> pending_changes[i].id]
                     ELSE ids
        IN  ~r.raised =>
                \A i \in 1..Len(r.st.pending_changes) :
                    ~InList(r.st.pending_changes[i].id, batch)

\* Pending changes that a returning applyApproved reports as duplicate and as
\* failed in the apply algorithm.
C8_Witness ==
    /\ Len(pending_changes) = 2
    /\ \E ids \in BatchInputs :
           LET r == apply_proposed_changes(State, ids)
           IN  /\ ~r.raised
               /\ Len(ids) = 2
               /\ ids[1] \in PendingIds
               /\ ids[2] \in PendingIds
               /\ r.results[1] \in {"invalid_field", "segment_not_found"}
               /\ r.results[2] \in {"applied", "duplicate"}

\* C9 as stated: applyApproved with the empty id list acts on exactly the
\* changes pending at call time, in queue order, and leaves pending_changes
\* empty; of two pending changes with one fingerprint, when the first is
\* applied the second is reported duplicate.
C9_Claim ==
    LET r == apply_proposed_changes(State, <<>>)
        n == Len(pending_changes)
        done == AppliedOf(pending_changes,
                          [i \in 1..n |-> pending_changes[i].id], r.results)
    IN  /\ ~r.raised
        /\ Len(r.results) = n
        /\ \A i \in 1..n : r.results[i] \in ApplyOutcomes \cup {"duplicate"}
        /\ r.st.pending_changes = <<>>
        /\ Len(r.st.versions) = Len(versions) + Len(done)
        /\ \A i \in 1..Len(done) :
               r.st.versions[Len(versions) + i].change_hash = done[i].change_hash
        /\ \A i, j \in 1..n :
               (i < j /\ pending_changes[i].change_hash = pending_changes[j].change_hash
                    /\ r.results[i] = "applied") => r.results[j] = "duplicate"

\* C10 as stated: a segments update whose old_value is not the name of a live
\* segment fails with segment-not-found: the segments list, the version log
\* and the undo and redo stacks are unchanged.
C10_Claim ==
    \A in \in SegmentsInputs :
        (/\ in.action = "update"
         /\ \A i \in 1..Len(segments) : segments[i].name # in.old_value
         /\ compute_hash(in) \notin existing_hashes(State)) =>
            LET r == apply_single_change(State, ProposedChange(uuid + 1, in))
            IN  /\ r.outcome = "segment_not_found"
                /\ r.st.segments = segments
                /\ r.st.versions = versions
                /\ r.st.undo_stack = undo_stack
                /\ r.st.redo_stack = redo_stack

\* Canvases, version log, undo stack and redo stack agree.
SameHistory(s, t) ==
    /\ SameCanvases(s, t)
    /\ s.versions = t.versions
    /\ s.undo_stack = t.undo_stack
    /\ s.redo_stack = t.redo_stack

\* C11: applying a bmc change whose field is not one of the 9 BMC fields, or
\* a vpc change whose field is not one of the 6 VPC sections, returns an
\* invalid-field outcome and leaves the canvases, the version log, the undo
\* stack and the redo stack unchanged.
C11_InvalidFieldChangesNothing ==
    \A in \in ProposeInputs :
        (\/ in.canvas_type = "bmc" /\ in.field \notin BMCCanvas
         \/ in.canvas_type = "vpc" /\ in.field \notin VPCCanvas) =>
            LET r == apply_single_change(State, ProposedChange(uuid + 1, in))
            IN  /\ r.outcome = "invalid_field"
                /\ SameHistory(r.st, State)

\* A change with a field its canvas does not have is applied on a thread
\* with a version in the log and an undone change on the redo stack.
C11_Witness ==
    /\ versions # <<>>
    /\ redo_stack # <<>>
    /\ \E in \in ProposeInputs :
           /\ in.canvas_type \in {"bmc", "vpc"}
           /\ in.field \notin BMCCanvas \cup VPCCanvas
           /\ apply_single_change(State, ProposedChange(uuid + 1, in)).outcome
                  = "invalid_field"

LiveCanvas(s, canvas_type) ==
    IF canvas_type = "bmc" THEN s.bmc
    ELSE IF canvas_type = "vpc" THEN s.vpc
    ELSE [items |-> s.segments]

\* The canvases other than that of canvas_type agree.
OtherCanvasesSame(s, t, canvas_type) ==
    \A ct \in CanvasType \ {canvas_type} : LiveCanvas(s, ct) = LiveCanvas(t, ct)

\* C13: undo on a non-empty undo stack pops its last entry, removes the
\* entry with that fingerprint from the version log, sets the canvas named
\* by the entry's canvas_type to the entry's snapshot_before, pushes the
\* entry onto the redo stack, and leaves the other two canvases,
\* pending_changes and rejected_changes unchanged; undo on an empty undo
\* stack reports nothing-to-undo and changes nothing.
C13_UndoPopsAndRestores ==
    LET r == undo_last_change(State)
    IN  /\ undo_stack # <<>> =>
               LET e == Last(undo_stack)
               IN  /\ r.outcome = "undone"
                   /\ r.st.undo_stack = SubSeq(undo_stack, 1, Len(undo_stack) - 1)
                   /\ e.change_hash \notin existing_hashes(r.st)
                   /\ r.st.versions =
                          SelectSeq(versions, LAMBDA v : v.change_hash # e.change_hash)
                   /\ Len(r.st.versions) = Len(versions) - 1
                   /\ LiveCanvas(r.st, e.canvas_type) = e.snapshot_before
                   /\ r.st.redo_stack = Append(redo_stack, e)
                   /\ OtherCanvasesSame(r.st, State, e.canvas_type)
                   /\ r.st.pending_changes = pending_changes
                   /\ r.st.rejected_changes = rejected_changes
        /\ undo_stack = <<>> =>
               /\ r.outcome = "nothing_to_undo"
               /\ r.st = State

\* Two changes have been applied, and the undo of the last one changes its
\* canvas.
C13_Witness ==
    /\ Len(undo_stack) = 2
    /\ redo_stack = <<>>
    /\ LiveCanvas(State, Last(undo_stack).canvas_type) # Last(undo_stack).snapshot_before
    /\ undo_last_change(State).outcome = "undone"

\* C14: redo on a non-empty redo stack pops its last entry, makes its
\* fingerprint present in the version log exactly once, sets the canvas
\* named by the entry's canvas_type to the entry's snapshot_after, and pushes
\* the entry onto the undo stack; redo on an empty redo stack reports
\* nothing-to-redo and changes nothing.  After any successful apply (by an
\* auto-mode propose or by applyApproved) redo reports nothing-to-redo.
C14_RedoPopsAndReinstalls ==
    LET r == redo_change(State)
    IN  /\ redo_stack # <<>> =>
               LET e == Last(redo_stack)
               IN  /\ r.outcome = "redone"
                   /\ r.st.redo_stack = SubSeq(redo_stack, 1, Len(redo_stack) - 1)
                   /\ HashCount(e.change_hash, r.st.versions) = 1
                   /\ \A h \in existing_hashes(State) :
                          HashCount(h, r.st.versions) = HashCount(h, versions)
                   /\ existing_hashes(r.st) = existing_hashes(State) \cup {e.change_hash}
                   /\ LiveCanvas(r.st, e.canvas_type) = e.snapshot_after
                   /\ OtherCanvasesSame(r.st, State, e.canvas_type)
                   /\ r.st.undo_stack = Append(undo_stack, e)
        /\ redo_stack = <<>> =>
               /\ r.outcome = "nothing_to_redo"
               /\ r.st = State
        /\ \A in \in ProposeInputs :
               LET a == propose_canvas_update(update_thread_state(State, TRUE), in)
               IN  a.outcome = "applied" =>
                       redo_change(a.st).outcome = "nothing_to_redo"
        /\ \A ids \in BatchInputs :
               LET a == apply_proposed_changes(State, ids)
               IN  (~a.raised /\ InList("applied", a.results)) =>
                       redo_change(a.st).outcome = "nothing_to_redo"

\* One change is applied and another is undone; the redo changes the canvas
\* of the undone change, and a change can still be applied.
C14_Witness ==
    /\ undo_stack # <<>>
    /\ redo_stack # <<>>
    /\ LiveCanvas(State, Last(redo_stack).canvas_type) # Last(redo_stack).snapshot_after
    /\ redo_change(State).outcome = "redone"
    /\ \E in \in ProposeInputs :
           propose_canvas_update(update_thread_state(State, TRUE), in).outcome = "applied"

\* C15: the fingerprint is a function of (canvas_type, field, action,
\* new_value) only: two change records built with equal values of those four
\* have equal fingerprints whatever their old_value, reason and id are, and
\* building a record again from the same values gives the same fingerprint.
C15_FingerprintOfFourFields ==
    /\ \A i, j \in 1..Len(pending_changes) :
           SameTuple(pending_changes[i], pending_changes[j]) =>
               pending_changes[i].change_hash = pending_changes[j].change_hash
    /\ \A i \in 1..Len(pending_changes) : \A id \in 1..(MaxUuid + 1) :
           LET c == pending_changes[i]
           IN  ProposedChange(id, In(c.canvas_type, c.field, c.action,
                                     c.old_value, c.new_value)).change_hash
                   = c.change_hash

\* Two records were built from the same four values with different
\* old_value, reason and id.
C15_Witness ==
    /\ Len(pending_changes) = 2
    /\ SameTuple(pending_changes[1], pending_changes[2])
    /\ pending_changes[1].old_value # pending_changes[2].old_value
    /\ pending_changes[1].reason # pending_changes[2].reason
    /\ pending_changes[1].id # pending_changes[2].id
    /\ pending_changes[1].change_hash = pending_changes[2].change_hash

\* C16 as stated: two change records whose (canvas_type, field, action,
\* new_value) differ in at least one component have different fingerprints
\* (the pre-hash key), over fields and new_values that include the empty
\* string, an absent new_value and strings containing the separator.
C16_Claim ==
    \A i, j \in 1..Len(pending_changes) :
        ~SameTuple(pending_changes[i], pending_changes[j]) =>
            pending_changes[i].change_hash # pending_changes[j].change_hash

\* The calls that can be made for thread tid, as canvas_store after them.
AfterAnyCall(tid) ==
    UNION {AfterPropose(canvas_store, uuid, tid),
           AfterApplyApproved(canvas_store, uuid, tid),
           AfterReject(canvas_store, uuid, tid),
           AfterUndo(canvas_store, uuid, tid),
           AfterRedo(canvas_store, uuid, tid),
           AfterSetAutoMode(canvas_store, uuid, tid),
           AfterLogActionOutcome(canvas_store, uuid, tid)}

\* C17: any operation (propose, applyApproved, reject, undo, redo,
\* setAutoMode, logActionOutcome) executed for thread key A leaves the
\* complete state of every other thread key B unchanged: B's state is the
\* same as before, and a B not yet referenced is still not in the registry.
C17_OtherThreadsUnchanged ==
    \A tid \in ThreadIds : \A r \in AfterAnyCall(tid) :
        \A other \in ThreadIds \ {tid} :
            /\ other \in DOMAIN canvas_store =>
                   /\ other \in DOMAIN r.store
                   /\ r.store[other] = canvas_store[other]
            /\ other \notin DOMAIN canvas_store => other \notin DOMAIN r.store

\* Two threads exist, one still as seeded and one with a change applied, and
\* a call for the seeded one changes it.
C17_Witness ==
    /\ DOMAIN canvas_store = ThreadIds
    /\ \E tid \in ThreadIds : \E other \in ThreadIds \ {tid} :
           /\ canvas_store[tid] = get_canvas_state
           /\ canvas_store[other].versions # <<>>
           /\ canvas_store[other].bmc # get_seed_bmc
           /\ \E r \in AfterAnyCall(tid) : r.store[tid].pending_changes # <<>>

\* The version entries of the log and of both stacks.
Entries(m) ==
    {m.versions[i] : i \in 1..Len(m.versions)}
        \cup {m.undo_stack[i] : i \in 1..Len(m.undo_stack)}
        \cup {m.redo_stack[i] : i \in 1..Len(m.redo_stack)}

\* C18: once a version entry has been recorded, the content of its
\* snapshot_before and of its snapshot_after is the same after every later
\* step (apply, undo, redo), although undo and redo make a snapshot object
\* the live canvas and later applies write the live canvas.
C18_SnapshotsNeverChange ==
    [][\A e \in Entries(memory) :
           /\ memory'.heap[e.snapshot_before] = memory.heap[e.snapshot_before]
           /\ memory'.heap[e.snapshot_after] = memory.heap[e.snapshot_after]]_vars

\* A change was applied, undone and redone, so that its snapshot_after
\* object became the live canvas (its entry in the log is the one on the
\* undo stack), and then another change was applied to the same canvas.
C18_Witness ==
    /\ Len(memory.versions) = 2
    /\ Len(memory.undo_stack) = 2
    /\ memory.versions[1].snapshot_after = memory.undo_stack[1].snapshot_after
    /\ memory.versions[1].canvas_type = "bmc"
    /\ memory.versions[2].canvas_type = "bmc"
    /\ memory.heap[memory.bmc] # memory.heap[memory.versions[1].snapshot_after]
    /\ memory.heap[memory.versions[2].snapshot_before]
           = memory.heap[memory.versions[1].snapshot_after]

\* No call is in progress.
Quiescent == \A k \in Workers : calls[k].pc \in {"idle", "done"}

\* C19 as stated: operations on one thread are serialized, so that when
\* reject(id) runs while applyApproved is between reading pending_changes
\* and writing it back, the outcome is that of a serial order of the two
\* calls; in particular, once the calls have returned, a change that reject
\* moved to rejected_changes is not in pending_changes.
C19_Claim ==
    Quiescent =>
        \A i \in 1..Len(rejected_changes) : rejected_changes[i].id \notin PendingIds

\* C20 as stated: when two propose calls with the same (canvas_type, field,
\* action, new_value) overlap on an auto-mode thread, the version log ends
\* with exactly one entry for that fingerprint and the undo stack with
\* exactly one such entry (as long as no applied change is undone).
C20_Claim ==
    \A j, k \in Workers :
        (/\ j # k
         /\ redo_stack = <<>>
         /\ calls[j].op = "propose" /\ calls[j].pc = "done"
         /\ calls[k].op = "propose" /\ calls[k].pc = "done"
         /\ calls[j].change.change_hash = calls[k].change.change_hash
         /\ calls[j].outcome \in {"applied", "duplicate"}
         /\ calls[k].outcome = "applied") =>
            /\ HashCount(calls[k].change.change_hash, versions) = 1
            /\ HashCount(calls[k].change.change_hash, undo_stack) = 1

\* The state is the one a first reference creates.
Seeded(st) ==
    /\ st.bmc = get_seed_bmc
    /\ st.vpc = get_seed_vpc
    /\ st.segments = get_seed_segments
    /\ st.versions = <<>>
    /\ st.pending_changes = <<>>
    /\ st.rejected_changes = <<>>
    /\ st.undo_stack = <<>>
    /\ st.redo_stack = <<>>
    /\ st.action_log = <<>>
    /\ st.auto_mode = FALSE

\* C21: the first reference to a thread id that has no state creates a state
\* with the seed canvases, empty versions, pending_changes, rejected_changes,
\* undo_stack, redo_stack and action_log, and auto_mode false; after a thread
\* is deleted it has no state, and the next reference to its id yields this
\* seed state again, whatever the thread held before; no other operation
\* resets a state: a reference to a thread that has a state returns that
\* state, and no call removes a thread from the registry.
C21_FreshStateOnlyAfterDelete ==
    \A tid \in ThreadIds :
        /\ tid \notin DOMAIN canvas_store =>
               /\ Seeded(thread_state(canvas_store, tid))
               /\ Seeded(create_thread(canvas_store, tid)[tid])
        /\ LET deleted == delete_thread(canvas_store, tid)
           IN  /\ tid \notin DOMAIN deleted
               /\ Seeded(thread_state(deleted, tid))
               /\ Seeded(create_thread(deleted, tid)[tid])
        /\ tid \in DOMAIN canvas_store =>
               /\ thread_state(canvas_store, tid) = canvas_store[tid]
               /\ create_thread(canvas_store, tid) = canvas_store
               /\ \A t \in ThreadIds : \A r \in AfterAnyCall(t) :
                      tid \in DOMAIN r.store

\* A thread with an edited canvas, a version in its log, an entry in its
\* action log and auto mode on is deleted, while another thread has no state.
C21_Witness ==
    \E tid \in ThreadIds : \E other \in ThreadIds \ {tid} :
        /\ tid \in DOMAIN canvas_store
        /\ other \notin DOMAIN canvas_store
        /\ uuid > 0
        /\ canvas_store[tid].bmc # get_seed_bmc
        /\ canvas_store[tid].versions # <<>>
        /\ canvas_store[tid].action_log # <<>>
        /\ canvas_store[tid].auto_mode
        /\ tid \notin DOMAIN delete_thread(canvas_store, tid)

\* The limits tried for the history query: 0..MaxLimit.
MaxLimit == 3

\* The entries of the version log of a canvas type (None: of all types).
OfCanvasType(vs, canvas_type) ==
    IF canvas_type = None THEN vs
    ELSE SelectSeq(vs, LAMBDA v : v.canvas_type = canvas_type)

\* C22 as stated: getHistory(canvas_type?, limit) returns at most limit
\* entries: the most recent min(limit, k) entries of the version log
\* restricted to the given canvas type (k = number of such entries), newest
\* first, for every limit >= 0; it reports no history when that selection is
\* empty.
C22_Claim ==
    \A canvas_type \in CanvasType \cup {None} : \A limit \in 0..MaxLimit :
        LET r == get_version_history(State, canvas_type, limit)
            sel == OfCanvasType(versions, canvas_type)
            k == Len(sel)
            n == IF limit < k THEN limit ELSE k
        IN  /\ Len(r.lines) <= limit
            /\ r.lines = [i \in 1..n |-> history_line(sel[k - i + 1])]
            /\ (n = 0) <=> (r.outcome = "no_history")

\* C23 as stated: in every reachable state no BMC field contains the same
\* string twice.
C23_Claim ==
    \A f \in DOMAIN bmc : \A i, j \in 1..Len(bmc[f]) :
        i # j => bmc[f][i] # bmc[f][j]

\* q without its entries that are in hit, by recursion from the head.
RECURSIVE Without(_, _)
Without(q, hit) ==
    IF q = <<>> THEN <<>>
    ELSE (IF Head(q) \in hit THEN <<>> ELSE <<Head(q)>>) \o Without(Tail(q), hit)

\* The change has the values its action needs.
HasNeededValues(in) ==
    \/ in.action = "add" /\ Truthy(in.new_value)
    \/ in.action = "remove" /\ Truthy(in.old_value)
    \/ in.action = "update" /\ Truthy(in.old_value) /\ Truthy(in.new_value)

\* BMC changes on two fields, with old and new values that are and are not
\* in the seed.
BmcChanges ==
    {In("bmc", f, a, o, n) :
        f \in {"key_partners", "channels"}, a \in ChangeAction,
        o \in {None, KP1, KP2, "Acme Cloud"}, n \in {None, "", KP2, "Acme Cloud"}}

\* C24: for a bmc change on a valid field with the values its action needs,
\* add appends new_value at the end of the field iff it is not already
\* present, remove deletes every entry equal to old_value, update replaces
\* every entry equal to old_value by new_value in place; the order of all
\* other entries and the content of the other 8 fields are unchanged.
C24_BmcChangeEditsOneField ==
    \A in \in BmcChanges :
        (in.field \in BMCCanvas /\ HasNeededValues(in)) =>
            LET r == apply_single_change(State, ProposedChange(uuid + 1, in))
                cur == bmc[in.field]
                new == r.st.bmc[in.field]
            IN  /\ r.outcome = "applied"
                /\ in.action = "add" =>
                       IF InList(in.new_value, cur)
                       THEN new = cur
                       ELSE GrownByOne(cur, new) /\ Last(new) = in.new_value
                /\ in.action = "remove" =>
                       /\ ~InList(in.old_value, new)
                       /\ new = Without(cur, {in.old_value})
                /\ in.action = "update" =>
                       /\ Len(new) = Len(cur)
                       /\ \A i \in 1..Len(cur) :
                              new[i] = IF cur[i] = in.old_value
                                       THEN in.new_value ELSE cur[i]
                /\ \A g \in BMCCanvas \ {in.field} : r.st.bmc[g] = bmc[g]
                /\ DOMAIN r.st.bmc = BMCCanvas

\* bmc changes were applied to key_partners, which holds one string twice:
\* a remove and an update of it act on two entries, an add of it on none.
C24_Witness ==
    /\ versions # <<>>
    /\ Last(versions).canvas_type = "bmc"
    /\ Count("Acme Cloud", bmc.key_partners) = 2
    /\ Len(bmc.key_partners) = 3

\* VPC changes on two sections, with old and new values that are and are not
\* the text of an item.
VpcChanges ==
    {In("vpc", f, a, o, n) :
        f \in {"pains", "gains"}, a \in ChangeAction,
        o \in {None, Pain1, "Slow feedback"}, n \in {None, "", Pain1, "Slow feedback"}}

\* The items of a section whose text is x.
WithText(items, x) == {items[i] : i \in {j \in 1..Len(items) : items[j].text = x}}

\* The section named by the change is edited as its action says, and the
\* other sections are as before.
VpcEdited(s, in) ==
    LET r == apply_single_change(s, ProposedChange(s.uuid + 1, in))
        cur == s.vpc[in.field]
        new == r.st.vpc[in.field]
    IN  /\ r.outcome = "applied"
        /\ in.action = "add" =>
               IF WithText(cur, in.new_value) # {}
               THEN new = cur
               ELSE /\ GrownByOne(cur, new)
                    /\ Last(new).text = in.new_value
                    /\ Last(new).importance = "fairly_essential"
        /\ in.action = "remove" =>
               /\ WithText(new, in.old_value) = {}
               /\ new = Without(cur, WithText(cur, in.old_value))
        /\ in.action = "update" =>
               /\ Len(new) = Len(cur)
               /\ \A i \in 1..Len(cur) :
                      /\ new[i].importance = cur[i].importance
                      /\ new[i].text = IF cur[i].text = in.old_value
                                       THEN in.new_value ELSE cur[i].text
        /\ \A g \in VPCCanvas \ {in.field} : r.st.vpc[g] = s.vpc[g]
        /\ DOMAIN r.st.vpc = VPCCanvas

\* C25 as stated: for a vpc change on a valid section, add appends an item
\* {text: new_value, importance: fairly_essential} iff no item of that
\* section has that text; update changes the text of every item whose text
\* equals old_value and keeps each such item's importance; remove deletes
\* every item whose text equals old_value; items of other sections are
\* unchanged.
C25_Original ==
    \A in \in VpcChanges : in.field \in VPCCanvas => VpcEdited(State, in)

\* C25 as amended: the same for a change that has the values its action
\* needs (a non-empty new_value for add, a non-empty old_value for remove,
\* both for update); a change without them leaves every section as it was.
C25_Amended ==
    \A in \in VpcChanges :
        in.field \in VPCCanvas =>
            IF HasNeededValues(in)
            THEN VpcEdited(State, in)
            ELSE LET r == apply_single_change(State, ProposedChange(uuid + 1, in))
                 IN  r.outcome = "applied" /\ r.st.vpc = vpc

\* An update was applied to the section pains: the item that was Pain1 has
\* the new text and the importance it had in the seed, which is not the
\* default one.
C25_Witness ==
    /\ versions # <<>>
    /\ Last(versions).canvas_type = "vpc"
    /\ vpc.pains[1] = CanvasItem("Slow feedback", "very_essential")
    /\ get_seed_vpc.pains[1] = CanvasItem(Pain1, "very_essential")

\* The change is one that leaves its field as it is: an add of content
\* already present, an update or a remove whose old_value matches no entry.
ChangesNothing(s, in) ==
    LET texts == IF in.canvas_type = "bmc"
                 THEN {s.bmc[in.field][i] : i \in 1..Len(s.bmc[in.field])}
                 ELSE {s.vpc[in.field][i].text : i \in 1..Len(s.vpc[in.field])}
    IN  \/ in.action = "add" /\ in.new_value \in texts
        \/ in.action \in {"update", "remove"} /\ in.old_value \notin texts

\* C26: a bmc or vpc change on a valid field that changes nothing (add of
\* content already present, update or remove whose old_value matches no
\* entry) is still a successful apply: it appends a version entry whose
\* snapshot_before equals its snapshot_after, its fingerprint is then in the
\* version log (a propose of it is reported duplicate), it pushes the entry
\* onto the undo stack and clears the redo stack.
C26_NoOpApplyIsVersioned ==
    \A in \in BmcChanges \cup VpcChanges :
        (/\ in.field \in (IF in.canvas_type = "bmc" THEN BMCCanvas ELSE VPCCanvas)
         /\ HasNeededValues(in)
         /\ ChangesNothing(State, in)) =>
            LET r == apply_single_change(State, ProposedChange(uuid + 1, in))
                e == Last(r.st.versions)
            IN  /\ r.outcome = "applied"
                /\ SameCanvases(r.st, State)
                /\ GrownByOne(versions, r.st.versions)
                /\ e.snapshot_before = e.snapshot_after
                /\ e.snapshot_after = LiveCanvas(State, in.canvas_type)
                /\ e.change_hash = compute_hash(in)
                /\ propose_canvas_update(r.st, in).outcome = "duplicate"
                /\ r.st.undo_stack = Append(undo_stack, e)
                /\ r.st.redo_stack = <<>>

\* The last change applied changed nothing: its entry, with equal snapshots,
\* is the last of the log and of the undo stack, behind an entry of a change
\* that did change the canvas.
C26_Witness ==
    /\ Len(versions) = 2
    /\ Last(versions).canvas_type \in {"bmc", "vpc"}
    /\ Last(versions).snapshot_before = Last(versions).snapshot_after
    /\ versions[1].snapshot_before # versions[1].snapshot_after
    /\ Last(undo_stack) = Last(versions)
    /\ redo_stack = <<>>

\* The old values tried in place of the one a change was proposed with.
OldValues == {None, KP1, KP2, Pain1, TF, "Alex"}

\* C27: once a change is in the version log, any later proposal with the
\* same (canvas_type, field, action, new_value), whatever its old_value, is
\* reported duplicate and is neither applied nor queued, in auto and in
\* manual mode; e.g. after an applied remove of old_value X from a field, a
\* remove of a different old_value Y from the same field (both without
\* new_value) leaves Y in the canvas.
C27_SameTupleOtherOldValueIsDuplicate ==
    \A in \in ProposeInputs : \A o \in OldValues : \A mode \in BOOLEAN :
        LET again == [in EXCEPT !.old_value = o]
            s == update_thread_state(State, mode)
            r == propose_canvas_update(s, again)
        IN  (/\ in.canvas_type \in CanvasType
             /\ HashCount(compute_hash(in), versions) > 0) =>
                /\ r.outcome = "duplicate"
                /\ SameStore(r.st, s)
                /\ r.st.rejected_changes = rejected_changes
                /\ (again.action = "remove" /\ again.canvas_type = "bmc"
                        /\ again.field \in BMCCanvas
                        /\ InList(o, bmc[again.field])) =>
                       InList(o, r.st.bmc[again.field])

\* The remove of KP1 from key_partners was applied and is in the version
\* log; KP2 is in the field, and the remove of KP2 is reported duplicate.
C27_Witness ==
    /\ auto_mode
    /\ ~InList(KP1, bmc.key_partners)
    /\ InList(KP2, bmc.key_partners)
    /\ \E i \in 1..Len(versions) :
           versions[i].change_description = "remove '" \o KP1 \o "' in bmc.key_partners"
    /\ propose_canvas_update(State, In("bmc", "key_partners", "remove", KP2, None)).outcome
           = "duplicate"

\* A segment of s has the name x.
SegmentNamed(s, x) == \E i \in 1..Len(s.segments) : s.segments[i].name = x

\* C28 as stated: a segments update that targets an existing segment with
\* field importance and a new_value outside the segment importance enum
\* fails with an outcome returned to the caller, not with an exception that
\* leaves the tool, and leaves the segments list, the version log, the undo
\* stack and the redo stack unchanged.
C28_Claim ==
    \A in \in SegmentsInputs :
        (/\ in.action = "update"
         /\ in.field = "importance"
         /\ Truthy(in.new_value)
         /\ in.new_value \notin SegmentImportance
         /\ SegmentNamed(State, in.old_value)
         /\ compute_hash(in) \notin existing_hashes(State)) =>
            LET s == update_thread_state(State, TRUE)
                r == propose_canvas_update(s, in)
            IN  /\ ~r.raised
                /\ r.outcome # "applied"
                /\ r.st.segments = segments
                /\ r.st.versions = versions
                /\ r.st.undo_stack = undo_stack
                /\ r.st.redo_stack = redo_stack

\* The attributes of a segment that an update can name.
SegmentFields == {"name", "description", "persona", "importance"}

\* C29 as stated: a segments update that targets an existing segment but
\* names a field outside name, description, persona, importance is not
\* applied: the apply ends with an invalid-field outcome, nothing is mutated
\* and no version entry is recorded.
C29_Claim ==
    \A in \in SegmentsInputs :
        (/\ in.action = "update"
         /\ in.field \notin SegmentFields
         /\ Truthy(in.new_value)
         /\ SegmentNamed(State, in.old_value)) =>
            LET r == apply_single_change(State, ProposedChange(uuid + 1, in))
            IN  /\ r.outcome = "invalid_field"
                /\ SameHistory(r.st, State)

\* The fingerprints of a list of version entries, in order.
HashesOf(vs) == [i \in 1..Len(vs) |-> vs[i].change_hash]

\* C30 as stated: in every reachable state the version log and the undo
\* stack hold the same fingerprints in the same order (and hence have the
\* same length).
C30_Claim == HashesOf(versions) = HashesOf(undo_stack)

\* The seed content of a canvas type, in the shape of a snapshot.
SeedCanvas(canvas_type) == LiveCanvas(get_canvas_state, canvas_type)

\* The positions of the entries of a canvas type on a stack.
OfType(stack, canvas_type) ==
    {i \in 1..Len(stack) : stack[i].canvas_type = canvas_type}

\* The content the undo stack accounts for: the snapshot_after of its
\* topmost entry of the canvas type, or the seed when it holds none.
Accounted(stack, canvas_type) ==
    LET at == OfType(stack, canvas_type)
    IN  IF at = {} THEN SeedCanvas(canvas_type)
        ELSE stack[CHOOSE i \in at : \A j \in at : j <= i].snapshot_after

\* C31 as stated: in every reachable state, for each canvas type T the live
\* canvas T equals the snapshot_after of the topmost undo-stack entry of
\* type T, or the seed content of T when the undo stack holds no entry of
\* type T; hence an undo reverts exactly the effect of the entry it pops.
C31_Claim ==
    /\ \A canvas_type \in CanvasType :
           LiveCanvas(State, canvas_type) = Accounted(undo_stack, canvas_type)
    /\ undo_stack # <<>> =>
           LET e == Last(undo_stack)
               r == undo_last_change(State)
           IN  /\ LiveCanvas(State, e.canvas_type) = e.snapshot_after
               /\ LiveCanvas(r.st, e.canvas_type) = e.snapshot_before
               /\ \A canvas_type \in CanvasType :
                      LiveCanvas(r.st, canvas_type)
                          = Accounted(r.st.undo_stack, canvas_type)

\* C32: in sequential use (every call runs to its end before the next
\* starts), in every reachable state no fingerprint of a redo-stack entry is
\* present in the version log, and the redo-stack fingerprints are pairwise
\* distinct; hence redo always re-appends its entry to the version log: the
\* guard against a fingerprint already present never fires.
C32_RedoEntriesNotInLog ==
    /\ \A i \in 1..Len(redo_stack) :
           redo_stack[i].change_hash \notin existing_hashes(State)
    /\ \A i, j \in 1..Len(redo_stack) :
           i # j => redo_stack[i].change_hash # redo_stack[j].change_hash
    /\ redo_stack # <<>> =>
           redo_change(State).st.versions = Append(versions, Last(redo_stack))

\* Two applied changes have been undone, and one was redone: an entry is in
\* the log and another waits on the redo stack.
C32_Witness ==
    /\ Len(redo_stack) = 1
    /\ Len(versions) = 1
    /\ Len(undo_stack) = 1
    /\ uuid = MaxUuid
    /\ redo_change(State).outcome = "redone"

\* C33: setAutoMode changes only the auto_mode flag: the canvases, the
\* version log, the undo and redo stacks (and pending_changes and
\* rejected_changes) are unchanged; changes pending when auto mode is
\* switched on are not applied by the switch or by a later auto-mode
\* propose, which records at most the version of the change proposed; undo
\* and redo leave them pending too: only applyApproved and reject take a
\* change out of pending_changes.
C33_SetAutoModeOnlySetsFlag ==
    /\ \A value \in BOOLEAN :
           LET t == update_thread_state(State, value)
           IN  /\ t.auto_mode = value
               /\ t = [State EXCEPT !.auto_mode = value]
               /\ SameStore(t, State)
               /\ t.rejected_changes = rejected_changes
    /\ \A in \in ProposeInputs :
           LET on == update_thread_state(State, TRUE)
               r == propose_canvas_update(on, in)
           IN  /\ r.st.pending_changes = pending_changes
               /\ \/ r.st.versions = versions
                  \/ /\ GrownByOne(versions, r.st.versions)
                     /\ Last(r.st.versions).change_hash = compute_hash(in)
               /\ r.st.auto_mode
    /\ undo_last_change(State).st.pending_changes = pending_changes
    /\ redo_change(State).st.pending_changes = pending_changes

\* A change was proposed in manual mode and is pending; auto mode was then
\* switched on and a later propose was applied.
C33_Witness ==
    /\ auto_mode
    /\ Len(pending_changes) = 1
    /\ pending_changes[1].id = 1
    /\ Len(versions) = 1
    /\ versions[1].applied_by = "auto"
    /\ versions[1].change_hash # pending_changes[1].change_hash
    /\ uuid = 2

====
